---------------------------- MODULE Spec2Model ----------------------------
(***************************************************************************)
(* A model of the AT-driver test harness: the WebSocket protocol client    *)
(* (ATDriver), the key model (ATKey / ATKeyChord / ATKeySequence) and the  *)
(* debounce-based speech collector (DriverTestRunner._collectSpeech).      *)
(*                                                                         *)
(* Scheduling follows the JavaScript event loop: an event of the outside   *)
(* world (a socket event, a timer, the browser finishing) is handled only  *)
(* when the main flow is suspended in an await on such an event; the       *)
(* continuations an event makes runnable run before the next event.        *)
(***************************************************************************)
EXTENDS Integers, Sequences, FiniteSets, TLC

(***************************************************************************)
(* Strings the code inspects character by character are sequences of       *)
(* one-character strings; a WebDriver code point is one character.         *)
(***************************************************************************)
LowerChars == <<"a","b","c","d","e","f","g","h","i","j","k","l","m",
                "n","o","p","q","r","s","t","u","v","w","x","y","z">>

UpperChars == <<"A","B","C","D","E","F","G","H","I","J","K","L","M",
                "N","O","P","Q","R","S","T","U","V","W","X","Y","Z">>

\* String.prototype.toUpperCase, one character
UpperChar(c) ==
  IF \E n \in DOMAIN LowerChars : LowerChars[n] = c
    THEN UpperChars[CHOOSE n \in DOMAIN LowerChars : LowerChars[n] = c]
    ELSE c

\* String.prototype.toUpperCase
toUpperCase(s) == [n \in DOMAIN s |-> UpperChar(s[n])]

\* const seleniumKeysMap = { NULL: '', ... }
seleniumKeysMap ==
  <<"N","U","L","L">> :> <<"\\ue000">> @@
  <<"C","A","N","C","E","L">> :> <<"\\ue001">> @@
  <<"H","E","L","P">> :> <<"\\ue002">> @@
  <<"B","A","C","K","S","P","A","C","E">> :> <<"\\ue003">> @@
  <<"T","A","B">> :> <<"\\ue004">> @@
  <<"C","L","E","A","R">> :> <<"\\ue005">> @@
  <<"R","E","T","U","R","N">> :> <<"\\ue006">> @@
  <<"E","N","T","E","R">> :> <<"\\ue007">> @@
  <<"S","H","I","F","T">> :> <<"\\ue008">> @@
  <<"C","O","N","T","R","O","L">> :> <<"\\ue009">> @@
  <<"A","L","T">> :> <<"\\ue00a">> @@
  <<"P","A","U","S","E">> :> <<"\\ue00b">> @@
  <<"E","S","C","A","P","E">> :> <<"\\ue00c">> @@
  <<"S","P","A","C","E">> :> <<"\\ue00d">> @@
  <<"P","A","G","E","_","U","P">> :> <<"\\ue00e">> @@
  <<"P","A","G","E","_","D","O","W","N">> :> <<"\\ue00f">> @@
  <<"E","N","D">> :> <<"\\ue010">> @@
  <<"H","O","M","E">> :> <<"\\ue011">> @@
  <<"L","E","F","T">> :> <<"\\ue012">> @@
  <<"U","P">> :> <<"\\ue013">> @@
  <<"R","I","G","H","T">> :> <<"\\ue014">> @@
  <<"D","O","W","N">> :> <<"\\ue015">> @@
  <<"I","N","S","E","R","T">> :> <<"\\ue016">> @@
  <<"D","E","L","E","T","E">> :> <<"\\ue017">> @@
  <<"S","E","M","I","C","O","L","O","N">> :> <<"\\ue018">> @@
  <<"E","Q","U","A","L","S">> :> <<"\\ue019">> @@
  <<"N","U","M","P","A","D","0">> :> <<"\\ue01a">> @@
  <<"N","U","M","P","A","D","1">> :> <<"\\ue01b">> @@
  <<"N","U","M","P","A","D","2">> :> <<"\\ue01c">> @@
  <<"N","U","M","P","A","D","3">> :> <<"\\ue01d">> @@
  <<"N","U","M","P","A","D","4">> :> <<"\\ue01e">> @@
  <<"N","U","M","P","A","D","5">> :> <<"\\ue01f">> @@
  <<"N","U","M","P","A","D","6">> :> <<"\\ue020">> @@
  <<"N","U","M","P","A","D","7">> :> <<"\\ue021">> @@
  <<"N","U","M","P","A","D","8">> :> <<"\\ue022">> @@
  <<"N","U","M","P","A","D","9">> :> <<"\\ue023">> @@
  <<"M","U","L","T","I","P","L","Y">> :> <<"\\ue024">> @@
  <<"A","D","D">> :> <<"\\ue025">> @@
  <<"S","E","P","A","R","A","T","O","R">> :> <<"\\ue026">> @@
  <<"S","U","B","T","R","A","C","T">> :> <<"\\ue027">> @@
  <<"D","E","C","I","M","A","L">> :> <<"\\ue028">> @@
  <<"D","I","V","I","D","E">> :> <<"\\ue029">> @@
  <<"F","1">> :> <<"\\ue031">> @@
  <<"F","2">> :> <<"\\ue032">> @@
  <<"F","3">> :> <<"\\ue033">> @@
  <<"F","4">> :> <<"\\ue034">> @@
  <<"F","5">> :> <<"\\ue035">> @@
  <<"F","6">> :> <<"\\ue036">> @@
  <<"F","7">> :> <<"\\ue037">> @@
  <<"F","8">> :> <<"\\ue038">> @@
  <<"F","9">> :> <<"\\ue039">> @@
  <<"F","1","0">> :> <<"\\ue03a">> @@
  <<"F","1","1">> :> <<"\\ue03b">> @@
  <<"F","1","2">> :> <<"\\ue03c">> @@
  <<"M","E","T","A">> :> <<"\\ue03d">> @@
  <<"C","O","M","M","A","N","D">> :> <<"\\ue03d">> @@
  <<"Z","E","N","K","A","K","U","_","H","A","N","K","A","K","U">> :> <<"\\ue040">>

\* The value JavaScript gives for an absent field
Undefined == "undefined"

(***************************************************************************)
(* The key model: ATKey, ATKeyChord, ATKeySequence.                        *)
(***************************************************************************)
\* new ATKey(key): mapped = seleniumKeysMap[key.toUpperCase()] ?? key
ATKey_key(key) ==
  [type |-> "key", key |-> key,
   mapped |-> IF toUpperCase(key) \in DOMAIN seleniumKeysMap
                THEN seleniumKeysMap[toUpperCase(key)]
                ELSE key]

\* ATKey.chord(...keys)
ATKey_chord(keys) == [type |-> "chord", keys |-> keys]

\* new ATKeySequence(sequence)
ATKeySequence(sequence) == [type |-> "sequence", sequence |-> sequence]

\* ATKey.sequence(...sequence): chords are kept, a bare key becomes a chord of
\* one key, a nested sequence contributes its chords in order
RECURSIVE ATKey_sequence_normalized(_)
ATKey_sequence_normalized(items) ==
  IF items = <<>> THEN <<>>
  ELSE LET item == Head(items)
           rest == ATKey_sequence_normalized(Tail(items))
       IN  CASE item.type = "chord" -> <<item>> \o rest
             [] item.type = "key" -> <<ATKey_chord(<<item>>)>> \o rest
             [] item.type = "sequence" -> item.sequence \o rest
             [] OTHER -> rest

\* a sequence that keeps a nested sequence as one of its elements
ATKey_sequence_Unflattened(items) ==
  ATKeySequence([n \in DOMAIN items |->
                   IF items[n].type = "key" THEN ATKey_chord(<<items[n]>>)
                                            ELSE items[n]])

ATKey_sequence(items) == ATKeySequence(ATKey_sequence_normalized(items))

(***************************************************************************)
(* String operations of JavaScript, on sequences of one-character strings. *)
(***************************************************************************)
\* a string field that is absent (undefined); no string of characters
UndefinedStr == <<Undefined>>

\* what JavaScript takes for false in a condition, of string-valued fields
Falsy(s) == s \in {UndefinedStr, <<>>}

\* a || b
OrElse(a, b) == IF Falsy(a) THEN b ELSE a

\* the characters \s matches and trim() removes
Whitespace == {" ", "\t", "\n"}

Digits == {"0", "1", "2", "3", "4", "5", "6", "7", "8", "9"}

\* the characters \w matches; \b is where a \w character meets another
\* character or an end of the string
WordChars ==
  {LowerChars[n] : n \in DOMAIN LowerChars}
    \cup {UpperChars[n] : n \in DOMAIN UpperChars} \cup Digits \cup {"_"}

\* String.prototype.toLowerCase, one character
LowerChar(c) ==
  IF \E n \in DOMAIN UpperChars : UpperChars[n] = c
    THEN LowerChars[CHOOSE n \in DOMAIN UpperChars : UpperChars[n] = c]
    ELSE c

\* String.prototype.toLowerCase
toLowerCase(s) == [n \in DOMAIN s |-> LowerChar(s[n])]

RECURSIVE trimStart(_)
trimStart(s) ==
  IF s # <<>> /\ Head(s) \in Whitespace THEN trimStart(Tail(s)) ELSE s

RECURSIVE trimEnd(_)
trimEnd(s) ==
  IF s # <<>> /\ s[Len(s)] \in Whitespace
    THEN trimEnd(SubSeq(s, 1, Len(s) - 1))
    ELSE s

\* String.prototype.trim
trim(s) == trimEnd(trimStart(s))

\* pat occurs in s at position n
MatchAt(s, pat, n) ==
  /\ n >= 1
  /\ n + Len(pat) - 1 <= Len(s)
  /\ \A k \in DOMAIN pat : s[n + k - 1] = pat[k]

\* the least element of a non-empty set of numbers
Least(S) == CHOOSE n \in S : \A k \in S : n <= k

\* the position of the first occurrence of pat in s, 0 when there is none
IndexOf(s, pat) ==
  LET hits == {n \in 1..Len(s) : MatchAt(s, pat, n)}
  IN  IF hits = {} THEN 0 ELSE Least(hits)

\* s with the len characters from position n replaced by rep
Splice(s, n, len, rep) ==
  SubSeq(s, 1, n - 1) \o rep \o SubSeq(s, n + len, Len(s))

\* s.replace(pat, rep) with a string pattern: the first occurrence only
replaceFirst(s, pat, rep) ==
  LET n == IndexOf(s, pat)
  IN  IF n = 0 THEN s ELSE Splice(s, n, Len(pat), rep)

\* s.replace(/pat/g, rep): every occurrence, left to right
RECURSIVE replaceAll(_, _, _)
replaceAll(s, pat, rep) ==
  LET n == IndexOf(s, pat)
  IN  IF n = 0 THEN s
      ELSE SubSeq(s, 1, n - 1) \o rep
             \o replaceAll(SubSeq(s, n + Len(pat), Len(s)), pat, rep)

\* s.split(/[seps]/): the parts between separators, empty parts included
RECURSIVE split(_, _)
split(s, seps) ==
  LET hits == {n \in DOMAIN s : s[n] \in seps}
  IN  IF hits = {} THEN <<s>>
      ELSE <<SubSeq(s, 1, Least(hits) - 1)>>
             \o split(SubSeq(s, Least(hits) + 1, Len(s)), seps)

\* a /[chars]/ test that never matches
testAny_Never(s, chars) == FALSE

\* /[chars]/.test(s)
testAny(s, chars) == \E n \in DOMAIN s : s[n] \in chars

\* /\bword\b/.test(s)
testWord(s, word) ==
  \E n \in DOMAIN s :
    /\ MatchAt(s, word, n)
    /\ (n = 1 \/ s[n - 1] \notin WordChars)
    /\ (n + Len(word) > Len(s) \/ s[n + Len(word)] \notin WordChars)

\* s.replace(/(PAGE)_(DOWN|UP)/, '$1$2'): the first PAGE_DOWN or PAGE_UP
\* loses its underscore
replacePage(s) ==
  LET hits == {n \in 1..Len(s) : \/ MatchAt(s, <<"P","A","G","E","_","D","O","W","N">>, n)
                                 \/ MatchAt(s, <<"P","A","G","E","_","U","P">>, n)}
  IN  IF hits = {} THEN s ELSE Splice(s, Least(hits) + 4, 1, <<>>)

\* s.replace(/\s?arrow\s?/g, ''): every "arrow", with one whitespace
\* character before it and one after it when there are
RECURSIVE replaceArrow(_)
replaceArrow(s) ==
  LET arrow == <<"a","r","r","o","w">>
      after(n) == IF n <= Len(s) /\ s[n] \in Whitespace THEN n + 1 ELSE n
  IN  IF s = <<>> THEN <<>>
      ELSE IF Head(s) \in Whitespace /\ MatchAt(s, arrow, 2)
        THEN replaceArrow(SubSeq(s, after(7), Len(s)))
      ELSE IF MatchAt(s, arrow, 1)
        THEN replaceArrow(SubSeq(s, after(6), Len(s)))
      ELSE <<Head(s)>> \o replaceArrow(Tail(s))

\* s.replace(/\s/g, '')
RECURSIVE removeWhitespace(_)
removeWhitespace(s) ==
  IF s = <<>> THEN <<>>
  ELSE (IF Head(s) \in Whitespace THEN <<>> ELSE <<Head(s)>>)
         \o removeWhitespace(Tail(s))

\* array.join(sep) of strings
RECURSIVE join(_, _)
join(lines, sep) ==
  IF lines = <<>> THEN <<>>
  ELSE IF Len(lines) = 1 THEN lines[1]
  ELSE lines[1] \o sep \o join(Tail(lines), sep)

\* the elements of a sequence of sequences, one after the other
RECURSIVE Flatten(_)
Flatten(seqs) ==
  IF seqs = <<>> THEN <<>> ELSE Head(seqs) \o Flatten(Tail(seqs))

\* the names every object inherits from Object.prototype
ObjectPrototypeKeys ==
  { <<"c","o","n","s","t","r","u","c","t","o","r">>,
    <<"_","_","p","r","o","t","o","_","_">>,
    <<"t","o","S","t","r","i","n","g">>,
    <<"v","a","l","u","e","O","f">>,
    <<"h","a","s","O","w","n","P","r","o","p","e","r","t","y">> }

\* the value of an inherited property: a function or an object, no string
Inherited == <<"[inherited]">>

\* object[key] of an object literal: its own property, else the property it
\* inherits, else undefined
Lookup(object, key) ==
  IF key \in DOMAIN object THEN object[key]
  ELSE IF key \in ObjectPrototypeKeys THEN Inherited
  ELSE UndefinedStr

(***************************************************************************)
(* The command validator and mapper.                                       *)
(***************************************************************************)
\* the table of named keys the validator looks parts up in (exported by the
\* at-driver module next to the runner): the names of the key table, and
\* the forms PAGEUP and PAGEDOWN the validator reassembles
webDriverCodePoints ==
  seleniumKeysMap @@ (<<"P","A","G","E","U","P">> :> <<"\\ue00e">>)
                  @@ (<<"P","A","G","E","D","O","W","N">> :> <<"\\ue00f">>)

\* the id as the validator looks at it: PAGE_DOWN and PAGE_UP lose their
\* underscore, the first '+' becomes '_', every '_ARROW' is removed
normalizeId(id) ==
  replaceAll(replaceFirst(replacePage(id), <<"+">>, <<"_">>), <<"_","A","R","R","O","W">>, <<>>)

\* part.length != 1 && !webDriverCodePoints[part.toUpperCase()]
unrecognized(part) ==
  Len(part) # 1 /\ Falsy(Lookup(webDriverCodePoints, toUpperCase(part)))

\* the errors of the parts of one id, in order
RECURSIVE partErrors(_, _)
partErrors(id, parts) ==
  IF parts = <<>> THEN <<>>
  ELSE (IF unrecognized(Head(parts))
          THEN <<[kind |-> "not a recognized key", id |-> id, part |-> Head(parts)]>>
          ELSE <<>>)
         \o partErrors(id, Tail(parts))

\* the body of the loop over command.keypresses, for one keypress id
keypressErrors(rawId) ==
  LET id == normalizeId(rawId)
      error(kind) == <<[kind |-> kind, id |-> id, part |-> UndefinedStr]>>
  IN  (IF testAny(id, {"/"}) THEN error("cannot contain '/'") ELSE <<>>)
        \o (IF testAny(id, {"(", ")"})
              THEN error("cannot contain '(' or ')'") ELSE <<>>)
        \o (IF testWord(id, <<"o","r">>) THEN error("cannot contain 'or'") ELSE <<>>)
        \o (IF testWord(id, <<"f","o","l","l","o","w","e","d">>)
              THEN error("cannot contain 'followed' or 'followed by'") ELSE <<>>)
        \o partErrors(id, split(id, {"_", "+", ","}))

\* a validator that returns at the first keypress with errors
validateKeysFromCommand_FailFast(command) ==
  LET bad == {n \in DOMAIN command.keypresses :
                keypressErrors(command.keypresses[n].id) # <<>>}
  IN  IF bad # {}
        THEN [value |-> <<>>,
              errors |-> <<keypressErrors(command.keypresses[Least(bad)].id)>>]
        ELSE [value |-> <<command>>, errors |-> <<>>]

\* validateKeysFromCommand(command): { errors } or { value: command }; a
\* field of the result that is absent is the empty sequence, one that is
\* present a sequence of one
validateKeysFromCommand(command) ==
  LET errors == Flatten([n \in DOMAIN command.keypresses |->
                           keypressErrors(command.keypresses[n].id)])
  IN  IF Len(errors) > 0
        THEN [value |-> <<>>, errors |-> <<errors>>]
        ELSE [value |-> <<command>>, errors |-> <<>>]

\* the keys of the chord of one keypress id
keysOfKeypress(id) ==
  LET parts == split(replaceAll(replacePage(id), <<"+">>, <<"_">>), {"_"})
  IN  [k \in DOMAIN parts |->
         ATKey_key(toLowerCase(removeWhitespace(replaceArrow(
           toLowerCase(trim(parts[k]))))))]

\* a mapper that puts the keys of every keypress into one chord
atKeysFromCommand_OneChord(command) ==
  ATKey_sequence(<<ATKey_chord(Flatten([n \in DOMAIN command.keypresses |->
                                         keysOfKeypress(command.keypresses[n].id)]))>>)

\* atKeysFromCommand(command)
atKeysFromCommand(command) ==
  ATKey_sequence([n \in DOMAIN command.keypresses |->
                    ATKey_chord(keysOfKeypress(command.keypresses[n].id))])

(***************************************************************************)
(* Bounds of the model and the inputs drawn within them.                   *)
(***************************************************************************)
\* calls the caller makes on one client
MaxOps == 2

\* messages the AT sends over the socket
MaxInbound == 2

Key_enter == ATKey_key(<<"e","n","t","e","r">>)

Key_insert == ATKey_key(<<"i","n","s","e","r","t">>)

Key_space == ATKey_key(<<"s","p","a","c","e">>)

Key_a == ATKey_key(<<"a">>)

\* argument lists of sendKeys: a bare key, and a nested sequence followed by
\* the chord Insert+Space of ensureSettings
SendKeysInputs ==
  { <<Key_enter>>,
    <<ATKey_sequence(<<Key_a>>), ATKey_chord(<<Key_insert, Key_space>>)>> }

\* error codes of an error response (never empty in the protocol)
ErrorCodes == {"unknown error"}

\* values of the settings update the caller sends
SettingsValues == {FALSE}

Utterances == {"Focus mode", "Browse mode"}

\* inbound frames: the response {id, error?} to the latest request, a response
\* with the id after it (not that of any request yet), the speech
\* notification, and a notification of another method
Messages(n) ==
  [id : {ToString(n - 1)}, error : {Undefined} \cup ErrorCodes,
   method : {Undefined}, data : {Undefined}]
  \cup [id : {ToString(n)}, error : {Undefined},
        method : {Undefined}, data : {Undefined}]
  \cup [id : {Undefined}, error : {Undefined},
        method : {"interaction.capturedOutput"}, data : Utterances]
  \cup [id : {Undefined}, error : {Undefined},
        method : {"interaction.other"}, data : {Undefined}]

(***************************************************************************)
(* The state.                                                              *)
(***************************************************************************)
VARIABLES
  socketState,  \* the ws socket: "connecting", "open", "closed"
  wire,         \* frames the socket has sent, in order
  nextId,       \* ATDriver._nextId
  inbound,      \* raw messages the socket has received, in order
  handled,      \* times the latest inbound message was logged and JSON-parsed
  pc,           \* where the main flow is
  call,         \* the caller's current (or last) call and what it did
  snd,          \* the current (or last) ATDriver._send
  chordIx,      \* sendKeys: index of the chord of the outer loop
  keyIx,        \* sendKeys: index of the key of the inner loop
  jobs,         \* the listen jobs started by _collectSpeech, with their buffers
  i,            \* _collectSpeech: spoken.length before the sleep
  appended,     \* an event was appended to the buffer since the sleep began
  nOps          \* calls made so far

VARIABLES
  rpc,           \* where DriverTestRunner.run is
  atName,        \* atName of the capabilities the runner collected
  test,          \* the test given to run
  cmdIx,         \* run: index of the command of the loop
  out,           \* run: commandsOutput and results (and the result returned)
  spokenOutput,  \* run: the speech collected while the keys were sent
  rlog,          \* navigations of the browser and frames sent to the AT, in order
  tg,            \* ensureSettings and pressKeysToToggleSetting
  thrown,        \* the error run was rejected with
  windows,       \* the calls of _collectSpeech run has made, in order
  capabilities,  \* the runner's collectedCapabilities, and the fetches made
  nRuns,         \* calls of run on the runner so far
  history        \* the capabilities of the results run has returned so far

VARIABLES
  kpc,          \* where a command is on its way from validation to the AT
  given,        \* the command given to validateKeysFromCommand
  validation,   \* what validateKeysFromCommand returned
  keySequence,  \* what atKeysFromCommand returned
  requests,     \* the commands sendKeys sent for the key sequence
  flattening    \* the arguments and the values of two calls of ATKey.sequence

VARIABLES
  hpc,                  \* where hostMain is
  plans,                \* the plans given to hostMain: the number of tests of each
  callbackUrl,          \* a callback url was given
  planIx,               \* hostMain: index of the plan of the outer loop
  testIx,               \* hostMain: index of the test of the inner loop
  runners,              \* the runners createRunner returned, one per plan begun
  lastCallbackRequest,  \* how the chain of callback requests settles
  hostLog               \* the messages hostMain has logged, in order

vars ==
  <<socketState, wire, nextId, inbound, handled, pc, call, snd, chordIx,
    keyIx, jobs, i, appended, nOps, rpc, atName, test, cmdIx, out,
    spokenOutput, rlog, tg, thrown, windows, capabilities, nRuns, history,
    kpc, given, validation, keySequence, requests, flattening,
    hpc, plans, callbackUrl, planIx, testIx, runners, lastCallbackRequest,
    hostLog>>


NoCall ==
  [kind |-> "none", outcome |-> "none", err |-> Undefined, keys |-> <<>>,
   reqs |-> <<>>, answered |-> 0, errAt |-> 0, errResp |-> Undefined,
   atState |-> "none", job |-> 0, opDone |-> FALSE, looped |-> FALSE,
   noisyReturn |-> FALSE,
   ret |-> <<>>]

NoSend == [id |-> Undefined, state |-> "none", matched |-> FALSE]

\* the variables of the runner's lifetime, which the steps of a run leave alone
lifeVars == <<capabilities, nRuns, history>>

\* the variables of a command on its way, which no call of the client or the
\* runner touches
keysVars == <<kpc, given, validation, keySequence, requests, flattening>>

\* the variables of a run
runVars ==
  <<rpc, atName, test, cmdIx, out, spokenOutput, rlog, tg, thrown, windows,
    lifeVars>>

\* the variables of hostMain
hostVars ==
  <<hpc, plans, callbackUrl, planIx, testIx, runners, lastCallbackRequest,
    hostLog>>

runnerVars == <<runVars, keysVars, hostVars>>

\* the variables of the client a run leaves alone
socketVars ==
  <<socketState, wire, inbound, handled, pc, call, snd, chordIx, keyIx, jobs,
    i, appended, nOps>>

NoError == [kind |-> "none", expected |-> UndefinedStr, got |-> UndefinedStr]

\* new Error(message)
Error(kind) == [kind |-> kind, expected |-> UndefinedStr, got |-> UndefinedStr]

NoTest ==
  [info |-> [testId |-> "none", presentationNumber |-> 0, task |-> "none"],
   target |-> [referencePage |-> "none", mode |-> UndefinedStr],
   commands |-> <<>>, assertions |-> <<>>]

NoOut ==
  [runner |-> "none", commands |-> <<>>, results |-> <<>>, returned |-> <<>>]

NoToggle ==
  [entry |-> "none", called |-> FALSE, settings |-> UndefinedStr,
   branch |-> "none",
   sequence |-> <<>>, desired |-> UndefinedStr, restores |-> FALSE,
   triesRemain |-> 0, unknownCollected |-> <<>>,
   from |-> 0, to |-> 0, disabled |-> FALSE, captured |-> <<>>, sends |-> 0,
   startOn |-> FALSE, atOn |-> FALSE, conforming |-> TRUE,
   owed |-> <<>>, faithful |-> TRUE,
   toggle |-> "none", toggleErr |-> NoError, outcome |-> "none",
   pending |-> NoError,
   err |-> NoError]

\* no runner, no capabilities asked for
NoCapabilities ==
  [state |-> "none", browserFetches |-> 0, atFetches |-> 0,
   value |-> [atName |-> UndefinedStr], err |-> NoError]

\* this.collectedCapabilities = this.getCapabilities(), in the constructor:
\* getCapabilities has asked the browser driver and awaits its answer
Constructed == [NoCapabilities EXCEPT !.state = "browser", !.browserFetches = 1]

\* the runner before run is called
NoRun ==
  /\ rpc = "idle"
  /\ atName = UndefinedStr
  /\ test = NoTest
  /\ cmdIx = 0
  /\ out = NoOut
  /\ spokenOutput = <<>>
  /\ rlog = <<>>
  /\ tg = NoToggle
  /\ thrown = NoError
  /\ windows = <<>>
  /\ nRuns = 0
  /\ history = <<>>

\* no command validated, no sequence built
NoKeys ==
  /\ kpc = "idle"
  /\ given = [id |-> "none", keypresses |-> <<>>, settings |-> UndefinedStr]
  /\ validation = [value |-> <<>>, errors |-> <<>>]
  /\ keySequence = ATKeySequence(<<>>)
  /\ requests = <<>>
  /\ flattening = [items |-> <<>>, nested |-> ATKeySequence(<<>>),
                   flat |-> ATKeySequence(<<>>)]

\* hostMain has not been called
NoHost ==
  /\ hpc = "none"
  /\ plans = <<>>
  /\ callbackUrl = FALSE
  /\ planIx = 0
  /\ testIx = 0
  /\ runners = <<>>
  /\ lastCallbackRequest = "resolved"
  /\ hostLog = <<>>

\* new ATDriver({socket, log}): the socket is connecting, _nextId = 0
Init ==
  /\ socketState = "connecting"
  /\ wire = <<>>
  /\ nextId = 0
  /\ inbound = <<>>
  /\ handled = 0
  /\ pc = "idle"
  /\ call = NoCall
  /\ snd = NoSend
  /\ chordIx = 1
  /\ keyIx = 1
  /\ jobs = <<>>
  /\ i = 0
  /\ appended = FALSE
  /\ nOps = 0
  /\ NoRun
  /\ capabilities = NoCapabilities
  /\ NoKeys
  /\ NoHost

\* the frame of the constructor: { method: 'session.new', params: {...} }
SessionNew ==
  [id |-> Undefined, method |-> "session.new", params |-> "capabilities: {}"]

\* a runner is made with the driver createATDriver returned: the socket has
\* opened and session.new has been sent
RunnerInit ==
  /\ socketState = "open"
  /\ wire = <<SessionNew>>
  /\ nextId = 0
  /\ inbound = <<>>
  /\ handled = 0
  /\ pc = "idle"
  /\ call = NoCall
  /\ snd = NoSend
  /\ chordIx = 1
  /\ keyIx = 1
  /\ jobs = <<>>
  /\ i = 0
  /\ appended = FALSE
  /\ nOps = 0
  /\ NoRun
  /\ capabilities = Constructed
  /\ NoKeys
  /\ NoHost

\* the main flow is suspended in an await that only an outside event resolves
\* (or is between two calls of the caller)
Blocked == pc \in {"idle", "awaitResponse", "awaitNav", "awaitTimer"}

(***************************************************************************)
(* The socket (the ws library) and the fan-out of its events.              *)
(***************************************************************************)
\* a socket that takes frames before it has opened
SocketSendOutcomes_BeforeOpen ==
  CASE socketState \in {"open", "connecting"} -> {"sent"}
    [] OTHER -> {"threw", "dropped"}

\* socket.send(data) without a callback: a frame goes out on an open socket;
\* while CONNECTING send throws; once closed it throws or drops the frame,
\* by the version of ws installed
SocketSendOutcomes ==
  CASE socketState = "open" -> {"sent"}
    [] socketState = "connecting" -> {"threw"}
    [] OTHER -> {"threw", "dropped"}

\* iterateEmitter(socket, 'message', 'close', 'error'): what an event of the
\* socket does to an iteration in progress
iterateEmitter(event) ==
  CASE event = "message" -> "yield"
    [] event = "close" -> "return"
    [] event = "error" -> "throw"

\* the speeches() consumers still iterating
RunningJobs == {j \in DOMAIN jobs : jobs[j].state = "running"}

\* the _messages() generators iterating the socket: one per running
\* speeches() consumer and one for a _send awaiting its response
Listeners == Cardinality(RunningJobs) + (IF pc = "awaitResponse" THEN 1 ELSE 0)

\* _messages(): every generator logs and parses each raw message it is given
HandledBy(listeners) == listeners

(***************************************************************************)
(* ATDriver._send                                                          *)
(***************************************************************************)
\* a wait that takes any response for its own
Matches_AnyResponse(m) == m.id # Undefined

\* if (message.id === id)
Matches(m) == m.id = snd.id

\* a _send that does not look at the error field
IsError_Ignored(m) == FALSE

\* if (message.error) throw new Error(message.error)
IsError(m) == m.error # Undefined

\* const id = (this._nextId++).toString(); log; this.socket.send(rawMessage);
\* then the wait for the response begins. c is the call the request belongs
\* to, chord the index of the chord it presses (0: not a key press)
SendRequest(c, command, chord, o) ==
  LET id == ToString(nextId)
      frame == [id |-> id, method |-> command.method, params |-> command.params]
  IN  /\ nextId' = nextId + 1
      /\ wire' = IF o = "sent" THEN Append(wire, frame) ELSE wire
      /\ snd' = [id |-> id, state |-> IF o = "threw" THEN "threw" ELSE "waiting",
                 matched |-> FALSE]
      /\ IF o = "threw"
           THEN /\ call' = [c EXCEPT !.outcome = "threw",
                                     !.err = "WebSocket is not open"]
                /\ pc' = "idle"
           ELSE /\ call' = [c EXCEPT !.reqs =
                              IF o = "sent"
                                THEN Append(@, [id |-> id, chord |-> chord,
                                                params |-> command.params])
                                ELSE @]
                /\ pc' = "awaitResponse"

\* _send returned normally: a settings update is done, sendKeys goes on with
\* the next key of its inner loop. c is the call, updated
SendReturned(c) ==
  IF c.kind = "settings"
    THEN /\ call' = [c EXCEPT !.outcome = "ok"]
         /\ pc' = "idle"
         /\ UNCHANGED keyIx
    ELSE /\ call' = c
         /\ pc' = "sendKeys"
         /\ keyIx' = keyIx + 1

(***************************************************************************)
(* ATDriver.speeches and the listen job of _collectSpeech                  *)
(***************************************************************************)
\* a speeches() that yields the data of every notification
IsSpeech_AnyNotification(m) == m.method # Undefined

\* if (message.method === 'interaction.capturedOutput') yield message.params.data
IsSpeech(m) == m.method = "interaction.capturedOutput"

\* a buffer that keeps one copy of each utterance
Push_Dedup(spoken, speech) ==
  IF \E n \in DOMAIN spoken : spoken[n] = speech
    THEN spoken
    ELSE Append(spoken, speech)

\* spoken.push(speech)
Push(spoken, speech) == Append(spoken, speech)

\* startJob(async signal => { for await (... speeches()) spoken.push(speech) })
startJob == [state |-> "running", spoken |-> <<>>, from |-> Len(inbound), to |-> -1]

\* speechJob.cancel(): the task body observes the signal and returns
JobCanceled(job) ==
  IF job.state = "running"
    THEN [job EXCEPT !.state = "canceled", !.to = Len(inbound)]
    ELSE job

\* the job's task body ends without a cancel: its stream returned or threw
JobEnded(job, how) ==
  IF job.state = "running"
    THEN [job EXCEPT !.state = IF how = "throw" THEN "failed" ELSE "ended",
                     !.to = Len(inbound)]
    ELSE job

(***************************************************************************)
(* The socket's events.                                                    *)
(***************************************************************************)
\* 'open': ready's continuation sends session.new, which carries no id
SocketOpen ==
  /\ socketState = "connecting"
  /\ Blocked
  /\ socketState' = "open"
  /\ wire' = Append(wire, SessionNew)
  /\ UNCHANGED <<nextId, inbound, handled, pc, call, snd, chordIx, keyIx,
                 jobs, i, appended, nOps>>
  /\ UNCHANGED runnerVars

\* 'message': every iterating _messages() generator logs and parses it; each
\* running speeches() consumer yields it when it is speech and the job
\* appends it; a waiting _send looks at its id
Deliver(m) ==
  /\ socketState = "open"
  /\ Blocked
  /\ Len(inbound) < MaxInbound
  /\ iterateEmitter("message") = "yield"
  /\ inbound' = Append(inbound, m)
  /\ handled' = HandledBy(Listeners)
  /\ jobs' = [j \in DOMAIN jobs |->
                IF jobs[j].state = "running" /\ IsSpeech(m)
                  THEN [jobs[j] EXCEPT !.spoken = Push(@, m.data)]
                  ELSE jobs[j]]
  /\ appended' = (appended \/ (call.job > 0 /\ jobs'[call.job] # jobs[call.job]))
  /\ LET \* what arrived, recorded apart from what _send makes of it
         hit == pc = "awaitResponse" /\ m.id = snd.id
         bad == hit /\ m.error # Undefined
         c == IF hit
                THEN [call EXCEPT !.answered = @ + 1,
                                  !.errAt = IF bad THEN Len(call.reqs) ELSE @,
                                  !.errResp = IF bad THEN m.error ELSE @]
                ELSE call
         s == IF hit THEN [snd EXCEPT !.matched = TRUE] ELSE snd
     IN  IF pc = "awaitResponse" /\ Matches(m)
           THEN IF IsError(m)
                  THEN /\ snd' = [s EXCEPT !.state = "threw"]
                       /\ call' = [c EXCEPT !.outcome = "threw", !.err = m.error]
                       /\ pc' = "idle"
                       /\ UNCHANGED keyIx
                  ELSE /\ snd' = [s EXCEPT !.state = "ok"]
                       /\ SendReturned(c)
           ELSE /\ call' = c
                /\ snd' = s
                /\ UNCHANGED <<pc, keyIx>>
  /\ UNCHANGED <<socketState, wire, nextId, chordIx, i, nOps>>
  /\ UNCHANGED runnerVars

\* 'close': every iteration of the socket ends; a speeches() consumer's loop
\* and with it the job's task body return; the loop of a waiting _send ends
\* and _send falls off its end
SocketClose ==
  /\ socketState = "open"
  /\ Blocked
  /\ socketState' = "closed"
  /\ jobs' = [j \in DOMAIN jobs |-> JobEnded(jobs[j], iterateEmitter("close"))]
  /\ IF pc = "awaitResponse"
       THEN IF iterateEmitter("close") = "throw"
              THEN /\ snd' = [snd EXCEPT !.state = "threw"]
                   /\ call' = [call EXCEPT !.outcome = "threw",
                                           !.err = "socket closed"]
                   /\ pc' = "idle"
                   /\ UNCHANGED keyIx
              ELSE /\ snd' = [snd EXCEPT !.state = "ok"]
                   /\ SendReturned(call)
       ELSE UNCHANGED <<pc, call, snd, keyIx>>
  /\ UNCHANGED <<wire, nextId, inbound, handled, chordIx, i, appended, nOps>>
  /\ UNCHANGED runnerVars

\* 'error' (followed by 'close'): every iteration of the socket throws; with
\* no listener at all the event is an uncaught exception and the process ends
SocketError ==
  /\ socketState \in {"connecting", "open"}
  /\ Blocked
  /\ socketState' = "closed"
  /\ jobs' = [j \in DOMAIN jobs |-> JobEnded(jobs[j], iterateEmitter("error"))]
  /\ IF Listeners = 0
       THEN /\ pc' = "crashed"
            /\ UNCHANGED <<call, snd>>
       ELSE IF pc = "awaitResponse"
              THEN /\ snd' = [snd EXCEPT !.state = "threw"]
                   /\ call' = [call EXCEPT !.outcome = "threw",
                                           !.err = "socket error"]
                   /\ pc' = "idle"
              ELSE UNCHANGED <<pc, call, snd>>
  /\ UNCHANGED <<wire, nextId, inbound, handled, chordIx, keyIx, i, appended,
                 nOps>>
  /\ UNCHANGED runnerVars

(***************************************************************************)
(* ATDriver.sendKeys                                                       *)
(***************************************************************************)
\* for (const { key } of chord): the inner loop runs once per key of the chord
InnerLoop(chord) == chord.keys

\* a request that carries the names of the keys, not their code points
PressKeys_Names(chord) ==
  [method |-> "interaction.pressKeys",
   params |-> [n \in DOMAIN chord.keys |-> chord.keys[n].key]]

\* params: { keys: chord.keys.map(({ mapped }) => mapped) }
PressKeys(chord) ==
  [method |-> "interaction.pressKeys",
   params |-> [n \in DOMAIN chord.keys |-> chord.keys[n].mapped]]

\* sendKeys without the await: the loops go on while _send still waits
SendKeysResumed_NoAwait ==
  \/ pc = "sendKeys"
  \/ pc = "awaitResponse" /\ call.kind = "collectKeys"

\* the loops of sendKeys go on only when the awaited _send has returned
SendKeysResumed == pc = "sendKeys"

\* one step of the loops of sendKeys: the next _send, the next chord, or the
\* return, which completes the operation _collectSpeech was given
SendKeysStep ==
  /\ SendKeysResumed
  /\ IF chordIx > Len(call.keys)
       THEN /\ pc' = "afterOp"
            /\ call' = [call EXCEPT !.opDone = TRUE]
            /\ UNCHANGED <<wire, nextId, snd, chordIx, keyIx>>
       ELSE IF keyIx > Len(InnerLoop(call.keys[chordIx]))
              THEN /\ chordIx' = chordIx + 1
                   /\ keyIx' = 1
                   /\ pc' = "sendKeys"
                   /\ UNCHANGED <<wire, nextId, snd, call>>
              ELSE /\ \E o \in SocketSendOutcomes :
                        SendRequest(call, PressKeys(call.keys[chordIx]), chordIx, o)
                   /\ UNCHANGED <<chordIx, keyIx>>
  /\ UNCHANGED <<socketState, inbound, handled, jobs, i, appended, nOps>>
  /\ UNCHANGED runnerVars

(***************************************************************************)
(* DriverTestRunner._collectSpeech                                         *)
(***************************************************************************)
\* a loop that also sleeps again after a quiet sleep
DebounceAgain_NonStrict(spoken) == i <= Len(spoken)

\* the comparison of the loop turned around
DebounceAgain_Inverted(spoken) == i > Len(spoken)

\* } while (i < spoken.length);
DebounceAgain(spoken) == i < Len(spoken)

\* a collector that returns without stopping its job
CancelJob_Skipped(job) == job

\* await speechJob.cancel();
CancelJob(job) == JobCanceled(job)

\* asyncOperation() has resolved: i = spoken.length; await timeout(debounceDelay)
BeginDebounce ==
  /\ pc = "afterOp"
  /\ i' = Len(jobs[call.job].spoken)
  /\ appended' = FALSE
  /\ pc' = "awaitTimer"
  /\ UNCHANGED <<socketState, wire, nextId, inbound, handled, call, snd,
                 chordIx, keyIx, jobs, nOps>>
  /\ UNCHANGED runnerVars

\* the sleep is over: sleep again when the buffer grew, else cancel the job,
\* await its end and return the buffer (cancel() surfaces an exception the
\* task body ended with)
TimerFire ==
  /\ pc = "awaitTimer"
  /\ LET j == call.job
     IN  IF DebounceAgain(jobs[j].spoken)
           THEN /\ i' = Len(jobs[j].spoken)
                /\ appended' = FALSE
                /\ call' = [call EXCEPT !.looped = TRUE]
                /\ UNCHANGED <<pc, jobs>>
           ELSE /\ jobs' = [jobs EXCEPT ![j] = CancelJob(@)]
                /\ pc' = "idle"
                /\ call' = IF jobs[j].state = "failed"
                             THEN [call EXCEPT !.outcome = "threw",
                                               !.err = "socket error"]
                             ELSE [call EXCEPT !.outcome = "ok",
                                               !.ret = jobs[j].spoken,
                                               !.noisyReturn = appended]
                /\ UNCHANGED <<i, appended>>
  /\ UNCHANGED <<socketState, wire, nextId, inbound, handled, snd, chordIx,
                 keyIx, nOps>>
  /\ UNCHANGED runnerVars

\* the browser finished the navigation _collectSpeech was given
NavDone ==
  /\ pc = "awaitNav"
  /\ pc' = "afterOp"
  /\ call' = [call EXCEPT !.opDone = TRUE]
  /\ UNCHANGED <<socketState, wire, nextId, inbound, handled, snd, chordIx,
                 keyIx, jobs, i, appended, nOps>>
  /\ UNCHANGED runnerVars

(***************************************************************************)
(* The caller: calls made on the client, one after the other.              *)
(***************************************************************************)
\* the settings update of ensureSettings, sent with _send
SettingsUpdate(value) ==
  [method |-> "nvda:settings.setSettings",
   params |-> [name |-> "virtualBuffers.passThroughAudioIndication",
               value |-> value]]

\* await this.atDriver._send({ method: 'nvda:settings.setSettings', ... })
CallSettings(value) ==
  /\ pc = "idle"
  /\ nOps < MaxOps
  /\ nOps' = nOps + 1
  /\ \E o \in SocketSendOutcomes :
       SendRequest([NoCall EXCEPT !.kind = "settings", !.outcome = "running",
                                  !.atState = socketState],
                   SettingsUpdate(value), 0, o)
  /\ UNCHANGED <<socketState, inbound, handled, chordIx, keyIx, jobs, i, appended>>
  /\ UNCHANGED runnerVars

\* _collectSpeech(delay, () => this.sendKeys(sequence)): the job starts
\* listening, then sendKeys begins
CallCollectKeys(items) ==
  /\ pc = "idle"
  /\ nOps < MaxOps
  /\ nOps' = nOps + 1
  /\ jobs' = Append(jobs, startJob)
  /\ call' = [NoCall EXCEPT !.kind = "collectKeys", !.outcome = "running",
                            !.atState = socketState,
                            !.keys = ATKey_sequence(items).sequence,
                            !.job = Len(jobs) + 1]
  /\ chordIx' = 1
  /\ keyIx' = 1
  /\ pc' = "sendKeys"
  /\ UNCHANGED <<socketState, wire, nextId, inbound, handled, snd, i, appended>>
  /\ UNCHANGED runnerVars

\* _collectSpeech(delay, () => this.browserDriver.navigate(...)): the job
\* starts listening, then the navigation begins
CallCollectNav ==
  /\ pc = "idle"
  /\ nOps < MaxOps
  /\ nOps' = nOps + 1
  /\ jobs' = Append(jobs, startJob)
  /\ call' = [NoCall EXCEPT !.kind = "collectNav", !.outcome = "running",
                            !.atState = socketState, !.job = Len(jobs) + 1]
  /\ pc' = "awaitNav"
  /\ UNCHANGED <<socketState, wire, nextId, inbound, handled, snd, chordIx,
                 keyIx, i, appended>>
  /\ UNCHANGED runnerVars

(***************************************************************************)
(* DriverTestRunner: inputs of a run.                                      *)
(***************************************************************************)
\* lines of speech captured in one collection window
MaxLines == 2

NVDA == <<"N","V","D","A">>

VoiceOver == <<"V","o","i","c","e","O","v","e","r">>

\* atName of the capabilities: the two known ATs, none, empty, another AT
AtNames == {NVDA, VoiceOver, UndefinedStr, <<>>, <<"J","A","W","S">>}

Str_BrowseMode == <<"B","r","o","w","s","e"," ","m","o","d","e">>

Str_FocusMode == <<"F","o","c","u","s"," ","m","o","d","e">>

Str_QuickNavOn == <<"q","u","i","c","k"," ","n","a","v"," ","o","n">>

Str_QuickNavOff == <<"q","u","i","c","k"," ","n","a","v"," ","o","f","f">>

Str_SingleQuickNavOn == <<"s","i","n","g","l","e","-","k","e","y"," ","q","u","i","c","k"," ","n","a","v"," ","o","n">>

Str_SingleQuickNavOff == <<"s","i","n","g","l","e","-","k","e","y"," ","q","u","i","c","k"," ","n","a","v"," ","o","f","f">>

\* calls of run on one runner
MaxRuns == 2

\* what an AT may say in one line: the names of its modes, also written with
\* other case and with white space around
Lines(name) ==
  IF name = VoiceOver
    THEN {Str_QuickNavOn, Str_QuickNavOff, <<" ","S","i","n","g","l","e","-","K","e","y"," ","Q","u","i","c","k"," ","N","a","v"," ","O","n"," ">>}
    ELSE {Str_BrowseMode, Str_FocusMode, <<" ","B","R","O","W","S","E"," ","m","o","d","e"," ">>}

\* the speech captured in one collection window
Buffers(name) == UNION {[1..n -> Lines(name)] : n \in 0..MaxLines}

\* what _collectSpeech returns after the keys of a command: nothing, one line
\* or two lines of speech
Outputs(name) ==
  LET said == IF name = VoiceOver
                THEN <<Str_QuickNavOff, Str_QuickNavOn>>
                ELSE <<Str_FocusMode, Str_BrowseMode>>
  IN  {SubSeq(said, 1, n) : n \in 0..Len(said)}

\* what _collectSpeech returns after a navigation: nothing, or one line
NavOutputs == {<<>>, <<<<"p","a","g","e">>>>}

\* settings names of commands: the names of the two mappings, a name of
\* neither, and a name every object inherits
SettingsNames ==
  { <<"b","r","o","w","s","e","M","o","d","e">>,
    <<"f","o","c","u","s","M","o","d","e">>,
    <<"q","u","i","c","k","N","a","v","O","n">>,
    <<"q","u","i","c","k","N","a","v","O","f","f">>,
    <<"s","i","n","g","l","e","Q","u","i","c","k","K","e","y","N","a","v","O","n">>,
    <<"d","e","f","a","u","l","t","M","o","d","e">>,
    <<"p","c","C","u","r","s","o","r">>,
    <<"c","o","n","s","t","r","u","c","t","o","r">> }

\* the command { id: 'c1', keypresses: [{ id: 'ENTER' }], settings }
Command_enter(settings) ==
  [id |-> "c1", keypresses |-> <<[id |-> <<"E","N","T","E","R">>]>>, settings |-> settings]

\* the command { id: 'c2', keypresses: [{ id: 'A/B' }], settings: 'browseMode' }
Command_slash ==
  [id |-> "c2", keypresses |-> <<[id |-> <<"A","/","B">>]>>,
   settings |-> <<"b","r","o","w","s","e","M","o","d","e">>]

\* the command { id: 'c3', keypresses: [{ id: 'a' }], settings }
Command_a(settings) ==
  [id |-> "c3", keypresses |-> <<[id |-> <<"a">>]>>, settings |-> settings]

Assertions ==
  << [expectation |-> <<"e","1">>, assertionStatement |-> UndefinedStr],
     [expectation |-> UndefinedStr, assertionStatement |-> <<"s","2">>] >>

Test(commands, mode) ==
  [info |-> [testId |-> "t1", presentationNumber |-> 1, task |-> "task"],
   target |-> [referencePage |-> "reference/page.html", mode |-> mode],
   commands |-> commands, assertions |-> Assertions]

\* tests: one command with each settings name; one command without settings
\* under each legacy mode; an invalid command before and after a valid one;
\* two valid commands
Tests ==
  {Test(<<Command_enter(s)>>, <<"r","e","a","d","i","n","g">>) : s \in SettingsNames}
    \cup {Test(<<Command_enter(UndefinedStr)>>, m) :
            m \in {UndefinedStr, <<"r","e","a","d","i","n","g">>, <<"i","n","t","e","r","a","c","t","i","o","n">>}}
    \cup {Test(<<Command_slash, Command_enter(UndefinedStr)>>, UndefinedStr),
          Test(<<Command_enter(UndefinedStr), Command_slash>>, UndefinedStr),
          Test(<<Command_enter(<<"b","r","o","w","s","e","M","o","d","e">>),
                 Command_a(UndefinedStr)>>, UndefinedStr)}

\* tests without settings and without mode: a valid command; an invalid
\* command and a valid one
PlanTests ==
  {Test(<<Command_enter(UndefinedStr)>>, UndefinedStr),
   Test(<<Command_slash, Command_enter(UndefinedStr)>>, UndefinedStr)}

\* how the AT answers a request
Responses == {"ok", "error"}

(***************************************************************************)
(* DriverTestRunner.ensureSettings, ensureMode, pressKeysToToggleSetting   *)
(***************************************************************************)
\* a value that has the methods of a string
IsString(v) == v \notin {Inherited, UndefinedStr}

\* { browsemode: 'Browse mode', focusmode: 'Focus mode' }
NvdaResponses ==
  (<<"b","r","o","w","s","e","m","o","d","e">> :> Str_BrowseMode)
    @@ (<<"f","o","c","u","s","m","o","d","e">> :> Str_FocusMode)

\* ATKey.sequence(ATKey.chord(ATKey.key('insert'), ATKey.key('space')))
Seq_InsertSpace == ATKey_sequence(<<ATKey_chord(<<Key_insert, Key_space>>)>>)

\* ATKey.sequence(ATKey.chord(ATKey.key('left'), ATKey.key('right')))
Seq_LeftRight ==
  ATKey_sequence(<<ATKey_chord(<<ATKey_key(<<"l","e","f","t">>),
                                 ATKey_key(<<"r","i","g","h","t">>)>>)>>)

\* ATKey.sequence(ATKey.chord(ATKey.key('control'), ATKey.key('option'),
\* ATKey.key('q')))
Seq_ControlOptionQ ==
  ATKey_sequence(<<ATKey_chord(<<ATKey_key(<<"c","o","n","t","r","o","l">>),
                                 ATKey_key(<<"o","p","t","i","o","n">>),
                                 ATKey_key(<<"q">>)>>)>>)

\* what a branch of ensureSettings or ensureMode does
DoReturn(called) ==
  [do |-> "return", called |-> called, settings |-> UndefinedStr,
   sequence |-> <<>>, desired |-> UndefinedStr, restores |-> FALSE,
   err |-> NoError]

DoThrow(called, kind) == [DoReturn(called) EXCEPT !.do = "throw", !.err = Error(kind)]

DoToggle(sequence, desired, restores) ==
  [DoReturn(TRUE) EXCEPT !.do = "toggle", !.sequence = sequence.sequence,
                         !.desired = desired, !.restores = restores]

\* a runner that takes no atName for unknown
AtNameUnknown_Never(name) == FALSE

\* else if (!atName)
AtNameUnknown(name) == Falsy(name)

\* ensureSettings(settings), up to the first request it sends
ensureSettings(name, settings) ==
  LET branch ==
    IF name = NVDA
      THEN LET desiredResponse == Lookup(NvdaResponses, toLowerCase(settings))
           IN  IF Falsy(desiredResponse)
                 THEN DoThrow(TRUE, "Unknown command settings for NVDA")
                 ELSE DoToggle(Seq_InsertSpace, desiredResponse, TRUE)
    ELSE IF name = VoiceOver
      THEN IF settings \in {<<"q","u","i","c","k","N","a","v","O","n">>, <<"a","r","r","o","w","Q","u","i","c","k","K","e","y","N","a","v","O","n">>}
             THEN DoToggle(Seq_LeftRight, Str_QuickNavOn, FALSE)
           ELSE IF settings \in {<<"q","u","i","c","k","N","a","v","O","f","f">>, <<"a","r","r","o","w","Q","u","i","c","k","K","e","y","N","a","v","O","f","f">>}
             THEN DoToggle(Seq_LeftRight, Str_QuickNavOff, FALSE)
           ELSE IF settings = <<"s","i","n","g","l","e","Q","u","i","c","k","K","e","y","N","a","v","O","n">>
             THEN DoToggle(Seq_ControlOptionQ, Str_SingleQuickNavOn, FALSE)
           ELSE IF settings = <<"s","i","n","g","l","e","Q","u","i","c","k","K","e","y","N","a","v","O","f","f">>
             THEN DoToggle(Seq_ControlOptionQ, Str_SingleQuickNavOff, FALSE)
           ELSE IF settings # <<"d","e","f","a","u","l","t","M","o","d","e">>
             THEN DoThrow(TRUE, "Unrecognized setting for VoiceOver")
           ELSE DoReturn(TRUE)
    ELSE IF AtNameUnknown(name)
      THEN DoReturn(TRUE)
    ELSE DoThrow(TRUE, "Unable to ensure proper settings. Unknown atName")
  IN  [branch EXCEPT !.settings = settings]

\* an ensureMode that takes "reading" for focus mode
ensureMode_Swapped(name, mode) ==
  IF name = NVDA
    THEN ensureSettings(name, IF toLowerCase(mode) = <<"r","e","a","d","i","n","g">>
                                THEN <<"f","o","c","u","s","M","o","d","e">>
                                ELSE <<"b","r","o","w","s","e","M","o","d","e">>)
  ELSE IF name = VoiceOver THEN DoReturn(FALSE)
  ELSE IF Falsy(name) THEN DoReturn(FALSE)
  ELSE DoThrow(FALSE, "Unable to ensure proper mode. Unknown atName")

\* ensureMode(mode)
ensureMode(name, mode) ==
  IF name = NVDA
    THEN ensureSettings(name, IF toLowerCase(mode) = <<"r","e","a","d","i","n","g">>
                                THEN <<"b","r","o","w","s","e","M","o","d","e">>
                                ELSE <<"f","o","c","u","s","M","o","d","e">>)
  ELSE IF name = VoiceOver THEN DoReturn(FALSE)
  ELSE IF Falsy(name) THEN DoReturn(FALSE)
  ELSE DoThrow(FALSE, "Unable to ensure proper mode. Unknown atName")

\* a comparison that minds the case
ResponseMatches_CaseSensitive(lastMessage, desiredResponse) ==
  lastMessage = desiredResponse

\* lastMessage.toLowerCase() === desiredResponse.toLowerCase()
ResponseMatches(lastMessage, desiredResponse) ==
  toLowerCase(lastMessage) = toLowerCase(desiredResponse)

\* an error text that keeps the last line only
Accumulate_LastOnly(unknownCollected, lastMessage) == lastMessage

\* if (unknownCollected.length) unknownCollected += '\n';
\* unknownCollected += lastMessage;
Accumulate(unknownCollected, lastMessage) ==
  (IF Len(unknownCollected) > 0
     THEN unknownCollected \o <<"\n">>
     ELSE unknownCollected) \o lastMessage

\* while (speechResponse.length) { ... }: the lines are shifted off the
\* buffer one by one until one matches
RECURSIVE ProcessLines(_, _, _)
ProcessLines(speechResponse, desiredResponse, unknownCollected) ==
  IF speechResponse = <<>>
    THEN [matched |-> FALSE, unknownCollected |-> unknownCollected]
    ELSE LET lastMessage == trim(Head(speechResponse))
         IN  IF ResponseMatches(lastMessage, desiredResponse)
               THEN [matched |-> TRUE, unknownCollected |-> unknownCollected]
               ELSE ProcessLines(Tail(speechResponse), desiredResponse,
                                 Accumulate(unknownCollected, lastMessage))

\* for (let triesRemain = 2; ...
TriesTotal == 2

\* a toggle without the finally block: the restoring update is sent only
\* when the toggle succeeded
AfterToggle_NoFinally(how) == IF how = "threw" THEN "rethrow" ELSE "restore"

\* try { await this.pressKeysToToggleSetting(...) } finally { ... }
AfterToggle(how) == "restore"

\* the name the AT speaks for the mode that is not the desired one
OtherModeName(desired) ==
  CASE desired = Str_BrowseMode -> Str_FocusMode
    [] desired = Str_FocusMode -> Str_BrowseMode
    [] desired = Str_QuickNavOn -> Str_QuickNavOff
    [] desired = Str_QuickNavOff -> Str_QuickNavOn
    [] desired = Str_SingleQuickNavOn -> Str_SingleQuickNavOff
    [] desired = Str_SingleQuickNavOff -> Str_SingleQuickNavOn
    [] OTHER -> UndefinedStr

\* what a two-state AT, in the desired mode or not, speaks for n toggle
\* chords it receives: the name of the new mode after each
SpokenByToggle(on, desired, n) ==
  [k \in 1..n |-> IF (k % 2 = 1) = on THEN OtherModeName(desired) ELSE desired]

(***************************************************************************)
(* The runner's requests and the browser's navigations.                    *)
(***************************************************************************)
\* browserDriver.navigate(url), while command cmdIx of the test is run
Navigate(url) ==
  [ev |-> "navigate", id |-> Undefined, what |-> url, params |-> <<>>,
   cmd |-> cmdIx]

\* the frame of the k-th next atDriver._send(command)
Frame(command, k) ==
  [ev |-> "frame", id |-> ToString(nextId + k - 1), what |-> command.method,
   params |-> command.params, cmd |-> cmdIx]

\* one call of _collectSpeech(delay, asyncOperation) while command cmdIx is
\* run: what asyncOperation did is the log from from + 1 to to; the call
\* returned spoken, or did not return because asyncOperation threw
Window(delay, to, returned, spoken) ==
  [cmd |-> cmdIx, delay |-> delay, from |-> Len(rlog), to |-> to,
   returned |-> returned, spoken |-> IF returned THEN spoken ELSE <<>>]

\* where the browser is sent after the keys of a command
PageAfterKeys_Stays(t) == t.target.referencePage

\* await this.browserDriver.navigate('about:blank')
PageAfterKeys(t) == "about:blank"

\* the commands ATDriver.sendKeys sends for a sequence of chords, each
\* awaited before the next
sendKeysCommands(sequence) ==
  Flatten([c \in DOMAIN sequence |->
             [k \in DOMAIN InnerLoop(sequence[c]) |-> PressKeys(sequence[c])]])

\* the frames that go out: all of them when each is answered, none after the
\* first when the AT answers that one with an error
SentBy(commands, resp) ==
  LET n == IF resp = "ok" \/ commands = <<>> THEN Len(commands) ELSE 1
  IN  [k \in 1..n |-> Frame(commands[k], k)]

\* the error of an error response, as _send throws it
AtError == Error("unknown error")

(***************************************************************************)
(* DriverTestRunner.run, step by step.                                     *)
(***************************************************************************)
\* a runner that takes every command for valid
IsValidCommand_Always(v) == TRUE

\* if (validCommand)
IsValidCommand(v) == v.value # <<>>

\* a run that goes on with the keys of the command after an error
RunFails_Swallowed(err) ==
  /\ rpc' = "keys"
  /\ thrown' = err

\* a loop over the assertions that scores the first one only
Scored_FirstOnly(assertions) == SubSeq(assertions, 1, 1)

\* for (const assertion of test.assertions): every assertion, in order
Scored(assertions) == assertions

\* an output that also holds what was spoken while the browser went back
OutputLines_WithNavigation(spoken, afterwards) == spoken \o afterwards

\* the lines of the output of a command: what the window of its keys
\* collected; what the window of the navigation that follows collected is
\* dropped
OutputLines(spoken, afterwards) == spoken

\* run rejects with err
RunFails(err) ==
  /\ rpc' = "failed"
  /\ thrown' = err

\* getCapabilities: the browser driver has answered; with its capabilities
\* the AT driver is asked, with an error collectedCapabilities is rejected
CollectBrowser(resp) ==
  /\ capabilities.state = "browser"
  /\ capabilities' =
       IF resp = "ok"
         THEN [capabilities EXCEPT !.state = "at", !.atFetches = @ + 1]
         ELSE [capabilities EXCEPT !.state = "rejected",
                                   !.err = Error("browser capabilities")]
  /\ UNCHANGED <<rpc, atName, test, cmdIx, out, spokenOutput, rlog, tg, thrown,
                 windows, nRuns, history, nextId>>
  /\ UNCHANGED <<socketVars, keysVars, hostVars>>

\* getCapabilities: the AT driver has answered; collectedCapabilities is
\* resolved with the snapshot, or rejected
CollectAt(name, resp) ==
  /\ capabilities.state = "at"
  /\ capabilities' =
       IF resp = "ok"
         THEN [capabilities EXCEPT !.state = "resolved",
                                   !.value = [atName |-> name]]
         ELSE [capabilities EXCEPT !.state = "rejected", !.err = AtError]
  /\ UNCHANGED <<rpc, atName, test, cmdIx, out, spokenOutput, rlog, tg, thrown,
                 windows, nRuns, history, nextId>>
  /\ UNCHANGED <<socketVars, keysVars, hostVars>>

\* a run that asks the drivers again
AwaitCapabilities_Refetch(c) ==
  [c EXCEPT !.browserFetches = @ + 1, !.atFetches = @ + 1]

\* const capabilities = await this.collectedCapabilities: the promise made
\* by the constructor, no new fetch
AwaitCapabilities(c) == c

\* run(test), once collectedCapabilities is settled: rejected, run rejects
\* with its error; resolved, the capabilities and the start are logged, the
\* browser goes to about:blank, the loop over the commands begins
StartRun(t) ==
  /\ capabilities.state \in {"resolved", "rejected"}
  /\ capabilities' = AwaitCapabilities(capabilities)
  /\ nRuns' = nRuns + 1
  /\ test' = t
  /\ out' = [NoOut EXCEPT !.runner = "driver"]
  /\ tg' = NoToggle
  /\ windows' = <<>>
  /\ spokenOutput' = <<>>
  /\ IF capabilities.state = "rejected"
       THEN /\ RunFails(capabilities.err)
            /\ rlog' = <<>>
            /\ cmdIx' = 0
            /\ UNCHANGED atName
       ELSE /\ atName' = capabilities.value.atName
            /\ rlog' = <<[Navigate("about:blank") EXCEPT !.cmd = 0]>>
            /\ cmdIx' = 1
            /\ rpc' = "loop"
            /\ thrown' = NoError
  /\ UNCHANGED <<nextId, history>>
  /\ UNCHANGED <<socketVars, keysVars, hostVars>>

\* the first call of run on the runner
Run(t) ==
  /\ rpc = "idle"
  /\ StartRun(t)

\* a later call of run, made when the one before has returned or failed
RunAgain(t) ==
  /\ rpc \in {"done", "failed"}
  /\ out.runner = "driver"
  /\ nRuns < MaxRuns
  /\ StartRun(t)

\* the command of the loop fails validation: INVALID_KEYS is logged, the
\* errors are the command's output, every assertion fails
RunInvalidCommand ==
  /\ rpc = "loop"
  /\ cmdIx <= Len(test.commands)
  /\ LET command == test.commands[cmdIx]
         v == validateKeysFromCommand(command)
     IN  /\ ~IsValidCommand(v)
         /\ out' = [out EXCEPT
              !.commands = Append(@, [command |-> command.id, output |-> <<>>,
                                      errors |-> v.errors]),
              !.results = @ \o [n \in DOMAIN Scored(test.assertions) |->
                                  [command |-> command.id,
                                   expectation |-> test.assertions[n].expectation,
                                   pass |-> FALSE]]]
  /\ cmdIx' = cmdIx + 1
  /\ UNCHANGED <<nextId, rpc, atName, test, spokenOutput, rlog, tg, thrown,
               windows>>
  /\ UNCHANGED <<socketVars, lifeVars, keysVars, hostVars>>

\* the command is valid: _collectSpeech(afterNav, () => this.openPage(...));
\* the click on the setup button is tried and its failure only logged; the
\* speech of this window is dropped
RunOpenPage(speech) ==
  /\ rpc = "loop"
  /\ cmdIx <= Len(test.commands)
  /\ IsValidCommand(validateKeysFromCommand(test.commands[cmdIx]))
  /\ rlog' = Append(rlog, Navigate(test.target.referencePage))
  /\ rpc' = "ensure"
  /\ tg' = NoToggle
  /\ windows' = Append(windows, Window("afterNav", Len(rlog) + 1, TRUE, speech))
  /\ UNCHANGED <<nextId, atName, test, cmdIx, out, spokenOutput, thrown>>
  /\ UNCHANGED <<socketVars, lifeVars, keysVars, hostVars>>

\* ensureSettings (or ensureMode) has ended; to is the length of the log then
EnsureEnds(t, how, err, to) ==
  /\ tg' = [t EXCEPT !.outcome = how, !.err = err, !.to = to]
  /\ IF how = "threw"
       THEN RunFails(err)
       ELSE /\ rpc' = "keys"
            /\ UNCHANGED thrown

\* a runner that looks at the legacy mode of the test first
SettingsStep_ModeFirst(command, t) ==
  IF ~Falsy(t.target.mode) THEN "ensureMode"
  ELSE IF ~Falsy(command.settings) THEN "ensureSettings"
  ELSE "none"

\* if (command.settings) ... else if (test.target?.mode) ...: which of
\* ensureSettings and ensureMode run calls for a command
SettingsStep(command, t) ==
  IF ~Falsy(command.settings) THEN "ensureSettings"
  ELSE IF ~Falsy(t.target.mode) THEN "ensureMode"
  ELSE "none"

\* if (command.settings) ensureSettings(...) else if (test.target?.mode)
\* ensureMode(...): up to the end of the first request. resp is the AT's
\* answer to the update that disables the audio indication, on whether the
\* AT is in the desired mode
EnsureBegin(resp, on) ==
  /\ rpc = "ensure"
  /\ LET command == test.commands[cmdIx]
         entry == SettingsStep(command, test)
         branch == IF entry = "ensureSettings"
                     THEN ensureSettings(atName, command.settings)
                   ELSE IF entry = "ensureMode"
                     THEN ensureMode(atName, test.target.mode)
                   ELSE DoReturn(FALSE)
         t == [NoToggle EXCEPT !.entry = entry, !.called = branch.called,
                               !.settings = branch.settings,
                               !.branch = branch.do, !.from = Len(rlog),
                               !.outcome = "running"]
         disable == Frame(SettingsUpdate(FALSE), 1)
         begun == [t EXCEPT !.sequence = branch.sequence,
                            !.desired = branch.desired,
                            !.restores = branch.restores,
                            !.triesRemain = TriesTotal,
                            !.disabled = branch.restores /\ resp = "ok",
                            !.startOn = on, !.atOn = on,
                            !.toggle = "running"]
     IN  CASE entry = "none" ->
                /\ tg' = NoToggle
                /\ rpc' = "keys"
                /\ UNCHANGED <<nextId, rlog, thrown>>
           [] entry # "none" /\ branch.do = "return" ->
                /\ EnsureEnds(t, "ok", NoError, Len(rlog))
                /\ UNCHANGED <<nextId, rlog>>
           [] entry # "none" /\ branch.do = "throw" ->
                /\ EnsureEnds(t, "threw", branch.err, Len(rlog))
                /\ UNCHANGED <<nextId, rlog>>
           [] entry # "none" /\ branch.do = "toggle" /\ ~branch.restores ->
                /\ tg' = begun
                /\ rpc' = "toggle"
                /\ UNCHANGED <<nextId, rlog, thrown>>
           [] entry # "none" /\ branch.do = "toggle" /\ branch.restores ->
                /\ rlog' = Append(rlog, disable)
                /\ nextId' = nextId + 1
                /\ IF resp = "ok"
                     THEN /\ tg' = begun
                          /\ rpc' = "toggle"
                          /\ UNCHANGED thrown
                     ELSE EnsureEnds(t, "threw", AtError, Len(rlog) + 1)
  /\ UNCHANGED <<atName, test, cmdIx, out, spokenOutput, windows>>
  /\ UNCHANGED <<socketVars, lifeVars, keysVars, hostVars>>

\* pressKeysToToggleSetting has ended, in the log of length to
ToggleEnds(t, how, err, to) ==
  IF t.restores /\ AfterToggle(how) = "restore"
    THEN /\ tg' = [t EXCEPT !.toggle = how, !.toggleErr = err, !.pending = err]
         /\ rpc' = "restore"
         /\ UNCHANGED thrown
    ELSE EnsureEnds([t EXCEPT !.toggle = how, !.toggleErr = err], how, err, to)

\* one attempt of pressKeysToToggleSetting: _collectSpeech(modeSwitch, () =>
\* this.sendKeys(sequence)), then the lines captured are compared. speech is
\* what the window captured, resp the AT's answer to the first request. The
\* AT is faithful when every window captured, in order, lines the AT had
\* spoken for its toggles by then; the lines it has spoken and no window has
\* captured yet are owed to the next window
ToggleAttempt(speech, resp) ==
  /\ rpc = "toggle"
  /\ LET frames == SentBy(sendKeysCommands(tg.sequence), resp)
         flips == IF resp = "ok" THEN Len(frames) ELSE 0
         sent == [tg EXCEPT
                    !.sends = @ + 1,
                    !.atOn = IF flips % 2 = 1 THEN ~@ ELSE @]
         said == tg.owed \o SpokenByToggle(tg.atOn, tg.desired, flips)
         inTime == \E n \in 0..Len(said) : speech = SubSeq(said, 1, n)
         heard == [sent EXCEPT
                     !.captured = Append(@, speech),
                     !.conforming =
                        @ /\ speech = SpokenByToggle(tg.atOn, tg.desired, flips),
                     !.faithful = @ /\ inTime,
                     !.owed = IF inTime
                                THEN SubSeq(said, Len(speech) + 1, Len(said))
                                ELSE <<>>]
         lines == ProcessLines(speech, tg.desired, tg.unknownCollected)
         left == [heard EXCEPT !.unknownCollected = lines.unknownCollected,
                               !.triesRemain = @ - 1]
         to == Len(rlog) + Len(frames)
     IN  /\ rlog' = rlog \o frames
         /\ windows' = Append(windows,
                               Window("modeSwitch", to, resp = "ok", speech))
         /\ nextId' = nextId + Len(frames)
         /\ IF resp # "ok"
              THEN ToggleEnds(sent, "threw", AtError, to)
            ELSE IF speech # <<>> /\ ~IsString(tg.desired)
              THEN ToggleEnds(heard, "threw",
                              Error("desiredResponse.toLowerCase is not a function"),
                              to)
            ELSE IF lines.matched
              THEN ToggleEnds(heard, "ok", NoError, to)
            ELSE IF left.triesRemain > 0
              THEN /\ tg' = left
                   /\ UNCHANGED <<rpc, thrown>>
            ELSE ToggleEnds(left, "threw",
                            [kind |-> "Unable to apply setting",
                             expected |-> tg.desired,
                             got |-> lines.unknownCollected],
                            to)
  /\ UNCHANGED <<atName, test, cmdIx, out, spokenOutput>>
  /\ UNCHANGED <<socketVars, lifeVars, keysVars, hostVars>>

\* finally { await this.atDriver._send(<audio indication: true>) }: then the
\* error of the toggle, if any, goes on
EnsureRestore(resp) ==
  /\ rpc = "restore"
  /\ rlog' = Append(rlog, Frame(SettingsUpdate(TRUE), 1))
  /\ nextId' = nextId + 1
  /\ IF resp # "ok"
       THEN EnsureEnds(tg, "threw", AtError, Len(rlog) + 1)
     ELSE IF tg.pending # NoError
       THEN EnsureEnds(tg, "threw", tg.pending, Len(rlog) + 1)
     ELSE EnsureEnds(tg, "ok", NoError, Len(rlog) + 1)
  /\ UNCHANGED <<atName, test, cmdIx, out, spokenOutput, windows>>
  /\ UNCHANGED <<socketVars, lifeVars, keysVars, hostVars>>

\* spokenOutput = await this._collectSpeech(afterKeys, () =>
\* this.sendKeys(atKeysFromCommand(validCommand)))
RunPressKeys(speech, resp) ==
  /\ rpc = "keys"
  /\ LET sequence == atKeysFromCommand(test.commands[cmdIx]).sequence
         frames == SentBy(sendKeysCommands(sequence), resp)
     IN  /\ rlog' = rlog \o frames
         /\ windows' = Append(windows,
                               Window("afterKeys", Len(rlog) + Len(frames),
                                      resp = "ok", speech))
         /\ nextId' = nextId + Len(frames)
  /\ IF resp = "ok"
       THEN /\ spokenOutput' = speech
            /\ rpc' = "blank"
            /\ UNCHANGED thrown
       ELSE /\ RunFails(AtError)
            /\ UNCHANGED spokenOutput
  /\ UNCHANGED <<atName, test, cmdIx, out, tg>>
  /\ UNCHANGED <<socketVars, lifeVars, keysVars, hostVars>>

\* the browser goes back to about:blank (in a collection window of its own),
\* the output of the command and a passing result per assertion are pushed
RunBlank(speech) ==
  /\ rpc = "blank"
  /\ rlog' = Append(rlog, Navigate(PageAfterKeys(test)))
  /\ windows' = Append(windows, Window("afterNav", Len(rlog) + 1, TRUE, speech))
  /\ LET command == test.commands[cmdIx]
     IN  out' = [out EXCEPT
           !.commands = Append(@, [command |-> command.id,
                                   output |-> <<join(OutputLines(spokenOutput, speech),
                                                      <<"\n">>)>>,
                                   errors |-> <<>>]),
           !.results = @ \o [n \in DOMAIN Scored(test.assertions) |->
                               [command |-> command.id,
                                expectation |->
                                  OrElse(test.assertions[n].expectation,
                                         test.assertions[n].assertionStatement),
                                pass |-> TRUE]]]
  /\ cmdIx' = cmdIx + 1
  /\ rpc' = "loop"
  /\ UNCHANGED <<nextId, atName, test, spokenOutput, tg, thrown>>
  /\ UNCHANGED <<socketVars, lifeVars, keysVars, hostVars>>

\* the loop is over: return { testId, presentationNumber, capabilities,
\* commands, results }
RunReturn ==
  /\ rpc = "loop"
  /\ cmdIx > Len(test.commands)
  /\ out' = [out EXCEPT !.returned =
               <<[testId |-> test.info.testId,
                  presentationNumber |-> test.info.presentationNumber,
                  capabilities |-> capabilities.value,
                  commands |-> out.commands, results |-> out.results]>>]
  /\ rpc' = "done"
  /\ UNCHANGED <<nextId, atName, test, cmdIx, spokenOutput, rlog, tg, thrown,
               windows>>
  /\ history' = Append(history, capabilities.value)
  /\ UNCHANGED <<capabilities, nRuns>>
  /\ UNCHANGED <<socketVars, keysVars, hostVars>>

(***************************************************************************)
(* MockTestRunner.run                                                      *)
(***************************************************************************)
\* the body of the loop of MockTestRunner.run for the commands from k on
RECURSIVE MockCommands(_, _)
MockCommands(t, k) ==
  IF k > Len(t.commands) THEN [commands |-> <<>>, results |-> <<>>]
  ELSE LET command == t.commands[k]
           v == validateKeysFromCommand(command)
           rest == MockCommands(t, k + 1)
           result(pass) ==
             [n \in DOMAIN Scored(t.assertions) |->
                [command |-> command.id,
                 expectation |-> OrElse(t.assertions[n].expectation,
                                        t.assertions[n].assertionStatement),
                 pass |-> pass]]
       IN  IF IsValidCommand(v)
             THEN [commands |->
                     <<[command |-> command.id,
                        output |-> <<<<"mocked output for ", command.id>>>>,
                        errors |-> <<>>]>> \o rest.commands,
                   results |-> result(TRUE) \o rest.results]
             ELSE [commands |->
                     <<[command |-> command.id, output |-> <<>>,
                        errors |-> v.errors]>> \o rest.commands,
                   results |-> result(FALSE) \o rest.results]

\* MockTestRunner.run(task): the reference page is requested once over HTTP,
\* then every command is answered with a mocked output
MockRun(t) ==
  /\ rpc = "idle"
  /\ test' = t
  /\ atName' = <<"m","o","c","k">>
  /\ rlog' = Append(rlog, [ev |-> "request", id |-> Undefined,
                           what |-> t.target.referencePage, params |-> <<>>,
                           cmd |-> 0])
  /\ cmdIx' = Len(t.commands) + 1
  /\ LET r == MockCommands(t, 1)
     IN  out' = [runner |-> "mock", commands |-> r.commands,
                 results |-> r.results,
                 returned |-> <<[testId |-> t.info.testId,
                                 presentationNumber |-> 0,
                                 capabilities |->
                                   [atName |-> <<"m","o","c","k">>],
                                 commands |-> r.commands,
                                 results |-> r.results]>>]
  /\ rpc' = "done"
  /\ UNCHANGED <<nextId, spokenOutput, tg, thrown, windows>>
  /\ UNCHANGED <<socketVars, lifeVars, keysVars, hostVars>>

Next ==
  \/ SocketOpen
  \/ \E m \in Messages(nextId) : Deliver(m)
  \/ SocketClose
  \/ SocketError
  \/ SendKeysStep
  \/ BeginDebounce
  \/ TimerFire
  \/ NavDone
  \/ \E value \in SettingsValues : CallSettings(value)
  \/ \E items \in SendKeysInputs : CallCollectKeys(items)
  \/ CallCollectNav

Spec == Init /\ [][Next]_vars

RunnerNext ==
  \/ \E resp \in Responses : CollectBrowser(resp)
  \/ \E name \in AtNames, resp \in Responses : CollectAt(name, resp)
  \/ \E t \in Tests : Run(t)
  \/ RunInvalidCommand
  \/ \E speech \in NavOutputs : RunOpenPage(speech)
  \/ \E resp \in Responses, on \in BOOLEAN : EnsureBegin(resp, on)
  \/ \E speech \in Buffers(atName), resp \in Responses :
       ToggleAttempt(speech, resp)
  \/ \E resp \in Responses : EnsureRestore(resp)
  \/ \E speech \in Outputs(atName), resp \in Responses :
       RunPressKeys(speech, resp)
  \/ \E speech \in NavOutputs : RunBlank(speech)
  \/ RunReturn
  \/ \E t \in Tests : MockRun(t)

\* a runner is made with a driver whose session is ready
RunnerSpec == RunnerInit /\ [][RunnerNext]_vars

\* run is called again and again on one runner, with tests that need no
\* settings
RunsNext ==
  \/ \E resp \in Responses : CollectBrowser(resp)
  \/ \E name \in AtNames, resp \in Responses : CollectAt(name, resp)
  \/ \E t \in PlanTests : Run(t)
  \/ \E t \in PlanTests : RunAgain(t)
  \/ RunInvalidCommand
  \/ \E speech \in NavOutputs : RunOpenPage(speech)
  \/ \E resp \in Responses, on \in BOOLEAN : EnsureBegin(resp, on)
  \/ \E speech \in Outputs(atName), resp \in Responses :
       RunPressKeys(speech, resp)
  \/ \E speech \in NavOutputs : RunBlank(speech)
  \/ RunReturn

RunsSpec == RunnerInit /\ [][RunsNext]_vars

(***************************************************************************)
(* Properties of ATDriver.sendKeys and ATDriver._send                      *)
(***************************************************************************)
\* C1: within one sendKeys call the pressKeys requests follow the order of
\* the chords (the first is for chord 1, each next one for the same or the
\* next chord, carrying that chord's mapped keys), and a request goes out
\* only when every earlier request of the call has had its response: never
\* more than one request is outstanding.
C1_ChordsInOrderNeverPipelined ==
  call.kind = "collectKeys" =>
    /\ \A n \in DOMAIN call.reqs :
         /\ call.reqs[n].chord \in DOMAIN call.keys
         /\ n = 1 => call.reqs[n].chord = 1
         /\ n > 1 => call.reqs[n].chord - call.reqs[n - 1].chord \in {0, 1}
         /\ call.reqs[n].params =
              [k \in DOMAIN call.keys[call.reqs[n].chord].keys |->
                 call.keys[call.reqs[n].chord].keys[k].mapped]
    /\ Len(call.reqs) - call.answered \in {0, 1}

\* C1 witness: the request for the second chord of a sequence is out, after
\* the response to the request for the first chord.
C1_Witness ==
  /\ call.kind = "collectKeys"
  /\ Len(call.reqs) = 2
  /\ call.reqs[2].chord = 2
  /\ call.answered = 1
  /\ pc = "awaitResponse"

\* C2: sendKeys issues exactly one pressKeys request per chord: no chord has
\* two requests, and when sendKeys has returned with every request answered
\* the requests are as many as the chords.
C2_OneRequestPerChord ==
  call.kind = "collectKeys" =>
    /\ \A a, b \in DOMAIN call.reqs :
         call.reqs[a].chord = call.reqs[b].chord => a = b
    /\ (call.opDone /\ call.answered = Len(call.reqs)) =>
         Len(call.reqs) = Len(call.keys)

\* C3: when the response matching a pressKeys request carries an error, the
\* sendKeys call fails with that error and the answered request stays the
\* last request of the call.
C3_ErrorResponseFailsSendKeys ==
  (call.kind = "collectKeys" /\ call.errAt > 0) =>
    /\ call.outcome = "threw"
    /\ call.err = call.errResp
    /\ call.err \in ErrorCodes
    /\ Len(call.reqs) = call.errAt
    /\ pc # "awaitResponse"

\* C3 witness: the first chord of a two-chord sequence was answered with an
\* error, and the call has failed with no request for the second chord.
C3_Witness ==
  /\ call.kind = "collectKeys"
  /\ Len(call.keys) = 2
  /\ call.errAt = 1
  /\ call.outcome = "threw"
  /\ Len(call.reqs) = 1

\* C4: every frame the client sends carries a string id, the ids being the
\* counter values "0", "1", "2", ... in the order sent (so no two frames
\* share an id).
C4_EveryRequestCarriesCounterId ==
  \A n \in DOMAIN wire :
    /\ wire[n].id # Undefined
    /\ wire[n].id = ToString(n - 1)

\* C5: a message that arrives while a request waits and does not carry the
\* request's id leaves the wait as it is; the message with the request's id
\* ends it; and each running speeches() consumer still gets the message when
\* it is speech, and nothing else.
C5_WaitUndisturbedAndSpeechDelivered ==
  [][(pc = "awaitResponse" /\ Len(inbound') = Len(inbound) + 1) =>
       LET m == inbound'[Len(inbound')]
       IN  /\ m.id # snd.id =>
                /\ pc' = "awaitResponse"
                /\ snd' = snd
                /\ call' = call
                /\ wire' = wire
           /\ m.id = snd.id =>
                /\ pc' # "awaitResponse"
                /\ snd'.state = IF m.error = Undefined THEN "ok" ELSE "threw"
           /\ \A j \in DOMAIN jobs :
                jobs[j].state = "running" =>
                  jobs'[j].spoken =
                    IF m.method = "interaction.capturedOutput"
                      THEN Append(jobs[j].spoken, m.data)
                      ELSE jobs[j].spoken]_vars

\* C5 witness: a request of a sendKeys call is waiting, a response with
\* another id and then a speech notification have arrived during the wait,
\* and the listen job running beside it holds the utterance.
C5_Witness ==
  /\ pc = "awaitResponse"
  /\ socketState = "open"
  /\ call.kind = "collectKeys"
  /\ Len(call.reqs) = 1
  /\ call.answered = 0
  /\ Len(inbound) = 2
  /\ jobs[call.job].from = 0
  /\ inbound[1].id \notin {Undefined, snd.id}
  /\ inbound[2].method = "interaction.capturedOutput"
  /\ jobs[call.job].spoken = <<inbound[2].data>>

\* C6: no inbound message is logged and JSON-parsed more than once, however
\* many waiters are listening when it arrives.
C6_InboundLoggedAndParsedOnce ==
  inbound # <<>> => handled <= 1

\* C7: nothing goes out before session.new (the first frame of the socket is
\* session.new and no other is), and a settings update or a sendKeys made
\* while the socket is still connecting fails without a frame of its own.
C7_NothingBeforeSessionReady ==
  /\ \A n \in DOMAIN wire : (wire[n].method = "session.new") <=> (n = 1)
  /\ (call.atState = "connecting" /\ call.kind = "settings") =>
       /\ call.outcome = "threw"
       /\ call.reqs = <<>>
  /\ (call.atState = "connecting" /\ call.kind = "collectKeys"
        /\ call.keys # <<>> /\ pc # "sendKeys") =>
       /\ call.outcome = "threw"
       /\ call.reqs = <<>>

\* C7 witness: a sendKeys made while the socket was connecting has failed,
\* and the socket has sent nothing.
C7_Witness ==
  /\ call.kind = "collectKeys"
  /\ call.atState = "connecting"
  /\ call.outcome = "threw"
  /\ nextId = 1
  /\ wire = <<>>

\* C8: a request completes successfully only when the response with its id
\* has been received (a close of the connection during the wait makes it
\* fail).
C8_NoSuccessWithoutResponse ==
  snd.state = "ok" => snd.matched

\* the data of the speech notifications among messages from + 1 .. to
RECURSIVE SpeechData(_, _)
SpeechData(from, to) ==
  IF to <= from THEN <<>>
  ELSE SpeechData(from, to - 1) \o
         (IF inbound[to].method = "interaction.capturedOutput"
            THEN <<inbound[to].data>>
            ELSE <<>>)

\* C9: the buffer a speeches() consumer has filled is exactly the data of the
\* interaction.capturedOutput notifications received since it began
\* consuming (until it stopped), in the order received, with nothing for any
\* other message; and a consumer that was not canceled has stopped only when
\* the connection is closed.
C9_SpeechesExactlyTheNotificationsInOrder ==
  \A j \in DOMAIN jobs :
    /\ jobs[j].spoken =
         SpeechData(jobs[j].from,
                    IF jobs[j].to = -1 THEN Len(inbound) ELSE jobs[j].to)
    /\ (jobs[j].to = -1) <=> (jobs[j].state = "running")
    /\ jobs[j].state \in {"ended", "failed"} => socketState = "closed"
    /\ socketState = "open" => jobs[j].state \in {"running", "canceled"}

\* C9 witness: a response and then a speech notification arrived while a
\* consumer was running on an open connection: it holds the one utterance.
C9_Witness ==
  \E j \in DOMAIN jobs :
    /\ jobs[j].state = "running"
    /\ socketState = "open"
    /\ jobs[j].from = 0
    /\ Len(inbound) = 2
    /\ inbound[1].method = Undefined
    /\ inbound[2].method = "interaction.capturedOutput"
    /\ jobs[j].spoken = <<inbound[2].data>>

\* C10: _collectSpeech has returned only when its operation had completed
\* and the sleep it returned from was one during which no event was appended
\* to the buffer.
C10_ReturnsAfterOpAndQuietWindow ==
  (call.kind \in {"collectKeys", "collectNav"} /\ call.outcome = "ok") =>
    /\ call.opDone
    /\ ~call.noisyReturn
    /\ call.ret = jobs[call.job].spoken

\* C10 witness: an event arrived during a sleep, the collector slept again,
\* and then returned the buffer with that event after a quiet sleep.
C10_Witness ==
  /\ call.kind = "collectNav"
  /\ call.outcome = "ok"
  /\ call.looped
  /\ call.ret # <<>>

(***************************************************************************)
(* Properties of DriverTestRunner._collectSpeech                           *)
(***************************************************************************)
\* C11: the buffer _collectSpeech returned holds the data of every speech
\* notification received from the start of its listen job to the job's end,
\* each once and in the order received, repeated utterances included.
C11_ReturnedBufferIsEverySpeechEvent ==
  (call.kind \in {"collectKeys", "collectNav"} /\ call.outcome = "ok") =>
    LET job == jobs[call.job]
    IN  /\ job.to >= job.from
        /\ call.ret = SpeechData(job.from, job.to)

\* C11 witness: the same utterance arrived twice during one collection, and
\* the buffer returned holds it twice.
C11_Witness ==
  /\ call.kind = "collectNav"
  /\ call.outcome = "ok"
  /\ Len(call.ret) = 2
  /\ call.ret[1] = call.ret[2]
  /\ Len(inbound) = 2

\* C12: once _collectSpeech has returned, its job is no longer running and
\* the buffer stays as it was returned whatever arrives later; and of two
\* collections one after the other, the second began listening only after
\* the job of the first was canceled, so no event of the first's window is in
\* the second's buffer.
C12_JobStoppedBeforeReturnWindowsDisjoint ==
  /\ (call.kind \in {"collectKeys", "collectNav"} /\ call.outcome = "ok") =>
       /\ jobs[call.job].state # "running"
       /\ jobs[call.job].spoken = call.ret
  /\ \A j \in DOMAIN jobs :
       jobs[j].state # "running" =>
         jobs[j].spoken = SpeechData(jobs[j].from, jobs[j].to)
  /\ \A j, k \in DOMAIN jobs :
       (j < k /\ jobs[j].state = "canceled") =>
         /\ jobs[j].to <= jobs[k].from
         /\ jobs[k].spoken =
              SpeechData(jobs[k].from,
                         IF jobs[k].to = -1 THEN Len(inbound) ELSE jobs[k].to)

\* C12 witness: a first collection returned one utterance, a message arrived
\* between the two collections, and a second collection returned another
\* utterance than the first.
C12_Witness ==
  /\ Len(jobs) = 2
  /\ call.outcome = "ok"
  /\ call.job = 2
  /\ Len(jobs[1].spoken) = 1
  /\ Len(jobs[2].spoken) = 1
  /\ jobs[1].spoken # jobs[2].spoken
  /\ jobs[1].to = 1
  /\ jobs[2].from = 1

\* the timers of the event loop fire, and a resumed continuation runs
LiveSpec ==
  Init /\ [][Next]_vars /\ WF_vars(BeginDebounce) /\ WF_vars(TimerFire)

\* C13: once the operation given to _collectSpeech has completed (and the
\* messages that arrive are finitely many) the collector eventually returns,
\* or fails with the socket error that ended its job; and a sleep during
\* which an event was appended never ends the collection, however many
\* sleeps came before it.
C13_ReturnsOnSilenceOnly ==
  /\ (call.opDone /\ call.outcome = "running")
       ~> (call.outcome = "ok" \/ (call.job > 0 /\ jobs[call.job].state = "failed"))
  /\ [][(pc = "awaitTimer" /\ appended) => pc' = "awaitTimer"]_vars

\* C13 witness: sendKeys completed, an utterance arrived during the first
\* sleep, the collector slept again and returned after the quiet sleep.
C13_Witness ==
  /\ call.kind = "collectKeys"
  /\ call.opDone
  /\ call.looped
  /\ call.outcome = "ok"
  /\ Len(call.ret) = 1

(***************************************************************************)
(* Properties of pressKeysToToggleSetting and ensureSettings               *)
(***************************************************************************)
\* the line is the desired response, but for case and white space around it
SaysDesired(line, desired) == toLowerCase(trim(line)) = toLowerCase(desired)

SomeLineSays(buffer, desired) ==
  \E n \in DOMAIN buffer : SaysDesired(buffer[n], desired)

\* the toggle has ended, for a desired response that is a string
ToggleEnded == tg.toggle \in {"ok", "threw"} /\ IsString(tg.desired)

\* C14: pressKeysToToggleSetting sends the toggle sequence at most twice; when
\* a line captured in the first attempt is the desired response (trimmed,
\* whatever the case) it has returned successfully after one send; when no
\* line of the first attempt but a line of the second is, it has returned
\* successfully after two sends.
C14_ToggleStopsAtFirstMatchingAttempt ==
  /\ tg.sends <= 2
  /\ ToggleEnded =>
       /\ (Len(tg.captured) >= 1 /\ SomeLineSays(tg.captured[1], tg.desired)) =>
            /\ tg.toggle = "ok"
            /\ tg.sends = 1
       /\ (/\ Len(tg.captured) = 2
           /\ ~SomeLineSays(tg.captured[1], tg.desired)
           /\ SomeLineSays(tg.captured[2], tg.desired)) =>
            /\ tg.toggle = "ok"
            /\ tg.sends = 2

\* C14 witness: for NVDA and "Browse mode" the first attempt captured
\* ["Focus mode"], the second ["Browse mode"], and the toggle succeeded.
C14_Witness ==
  /\ tg.toggle = "ok"
  /\ tg.desired = Str_BrowseMode
  /\ tg.captured = << <<Str_FocusMode>>, <<Str_BrowseMode>> >>
  /\ tg.sends = 2

\* the lines of a sequence of lines that are not empty
NonEmpty(lines) == SelectSeq(lines, LAMBDA line : line # <<>>)

\* C15: when no line captured in either attempt is the desired response, the
\* toggle has failed after two sends with the error "Unable to apply
\* setting" that carries the desired response and, line by line, every line
\* captured in the two attempts (trimmed), in the order captured.
C15_NoMatchFailsWithAllUnmatchedLines ==
  (/\ IsString(tg.desired)
   /\ Len(tg.captured) = 2
   /\ ~SomeLineSays(tg.captured[1], tg.desired)
   /\ ~SomeLineSays(tg.captured[2], tg.desired)) =>
    LET all == tg.captured[1] \o tg.captured[2]
    IN  /\ tg.toggle = "threw"
        /\ tg.sends = 2
        /\ tg.toggleErr.kind = "Unable to apply setting"
        /\ tg.toggleErr.expected = tg.desired
        /\ NonEmpty(split(tg.toggleErr.got, {"\n"}))
             = NonEmpty([n \in DOMAIN all |-> trim(all[n])])

\* C15 witness: two attempts for "Browse mode" captured "Focus mode" three
\* times in all, and the toggle failed.
C15_Witness ==
  /\ tg.toggle = "threw"
  /\ tg.desired = Str_BrowseMode
  /\ tg.captured = << <<Str_FocusMode>>, <<Str_FocusMode, Str_FocusMode>> >>
  /\ tg.toggleErr.kind = "Unable to apply setting"

\* C16: with an AT that is a two-state toggle and speaks the name of the new
\* mode for every toggle chord it receives, within the window of the attempt,
\* the toggle returns successfully from either starting mode, after no more
\* than two sends, with the AT in the desired mode.
C16_ToggleLeavesAtInDesiredMode ==
  (ToggleEnded /\ tg.conforming /\ Len(tg.captured) = tg.sends) =>
    /\ tg.toggle = "ok"
    /\ tg.sends <= 2
    /\ tg.atOn

\* a frame that updates the audio indication setting to value
IsUpdate(e, value) ==
  /\ e.ev = "frame"
  /\ e.what = "nvda:settings.setSettings"
  /\ e.params.value = value

IsPress(e) == e.ev = "frame" /\ e.what = "interaction.pressKeys"

\* what was sent and navigated from the start of ensureSettings to its end
EnsureLog == SubSeq(rlog, tg.from + 1, tg.to)

\* ensureSettings has ended, for NVDA and a settings name of its mapping
NvdaEnsureEnded ==
  /\ tg.called
  /\ tg.outcome \in {"ok", "threw"}
  /\ atName = NVDA
  /\ toLowerCase(tg.settings) \in {<<"b","r","o","w","s","e","m","o","d","e">>, <<"f","o","c","u","s","m","o","d","e">>}

\* the update that disables comes first, then toggle chords only, and the
\* update that restores comes last
DisabledToggledRestored ==
  /\ Len(EnsureLog) >= 2
  /\ IsUpdate(EnsureLog[1], FALSE)
  /\ IsUpdate(EnsureLog[Len(EnsureLog)], TRUE)
  /\ \A n \in 2..(Len(EnsureLog) - 1) :
       /\ IsPress(EnsureLog[n])
       /\ EnsureLog[n].params = PressKeys(Seq_InsertSpace.sequence[1]).params

EnsureSettingsEnded == tg.called /\ tg.outcome \in {"ok", "threw"}

\* nothing was sent from the start of ensureSettings to its end: the last
\* thing done, until run goes on, is the navigation to the page of the test
NothingSent ==
  /\ tg.to = tg.from
  /\ (rpc = "keys" \/ tg.outcome = "threw") =>
       /\ Len(rlog) = tg.from
       /\ rlog[Len(rlog)].ev = "navigate"

VoiceOverSettings ==
  { <<"q","u","i","c","k","N","a","v","O","n">>,
    <<"a","r","r","o","w","Q","u","i","c","k","K","e","y","N","a","v","O","n">>,
    <<"q","u","i","c","k","N","a","v","O","f","f">>,
    <<"a","r","r","o","w","Q","u","i","c","k","K","e","y","N","a","v","O","f","f">>,
    <<"s","i","n","g","l","e","Q","u","i","c","k","K","e","y","N","a","v","O","n">>,
    <<"s","i","n","g","l","e","Q","u","i","c","k","K","e","y","N","a","v","O","f","f">> }

\* C19: for NVDA and for VoiceOver, a settings name outside the AT's mapping
\* makes ensureSettings fail with nothing sent; for VoiceOver "defaultMode"
\* succeeds with nothing sent.
C19_UnmappedSettingsFailBeforeSending ==
  (EnsureSettingsEnded /\ tg.entry = "ensureSettings") =>
    /\ (/\ atName = NVDA
        /\ toLowerCase(tg.settings)
             \notin {<<"b","r","o","w","s","e","m","o","d","e">>, <<"f","o","c","u","s","m","o","d","e">>}) =>
         /\ tg.outcome = "threw"
         /\ NothingSent
    /\ (/\ atName = VoiceOver
        /\ tg.settings \notin VoiceOverSettings \cup {<<"d","e","f","a","u","l","t","M","o","d","e">>}) =>
         /\ tg.outcome = "threw"
         /\ NothingSent
    /\ (atName = VoiceOver /\ tg.settings = <<"d","e","f","a","u","l","t","M","o","d","e">>) =>
         /\ tg.outcome = "ok"
         /\ NothingSent

(***************************************************************************)
(* Properties of run                                                       *)
(***************************************************************************)
\* a command with a keypress id that contains '/'
HasSlash(command) ==
  \E n \in DOMAIN command.keypresses : testAny(command.keypresses[n].id, {"/"})

\* C20: for a command that fails validation (one with '/' in a keypress id)
\* run makes no navigation and sends no frame, records one CommandOutput
\* with the errors and no output and, for every assertion of the test, one
\* result with pass = false; and the run does not fail at that command, it
\* goes on with the next.
C20_InvalidCommandSkippedAndFailed ==
  \A k \in DOMAIN test.commands :
    HasSlash(test.commands[k]) =>
      /\ \A n \in DOMAIN rlog : rlog[n].cmd # k
      /\ ~(rpc = "failed" /\ cmdIx = k)
      /\ k \in DOMAIN out.commands =>
           /\ cmdIx > k
           /\ out.commands[k].command = test.commands[k].id
           /\ out.commands[k].output = <<>>
           /\ Len(out.commands[k].errors) = 1
           /\ out.commands[k].errors[1] # <<>>
           /\ \A a \in DOMAIN test.assertions :
                LET r == out.results[(k - 1) * Len(test.assertions) + a]
                IN  /\ r.command = test.commands[k].id
                    /\ r.pass = FALSE
      /\ cmdIx > k => k \in DOMAIN out.commands

\* C20 witness: the first command of the test failed validation, the second
\* was run, and run returned both outputs.
C20_Witness ==
  /\ rpc = "done"
  /\ out.runner = "driver"
  /\ HasSlash(test.commands[1])
  /\ Len(out.commands) = 2
  /\ out.commands[1].errors # <<>>
  /\ out.commands[2].output # <<>>
  /\ out.returned # <<>>

\* the greatest number of a non-empty set of numbers
Greatest(S) == CHOOSE x \in S : \A y \in S : y <= x

\* the page the browser was last sent to when the log had n entries
PageAt(n) ==
  LET navigations == {m \in 1..n : rlog[m].ev = "navigate"}
  IN  IF navigations = {} THEN "none" ELSE rlog[Greatest(navigations)].what

\* the calls of _collectSpeech made for command k, in order
WindowsOf(k) == SelectSeq(windows, LAMBDA w : w.cmd = k)

\* command k of the test was valid and all its steps are done
Completed(k) ==
  /\ out.runner = "driver"
  /\ k \in DOMAIN out.commands
  /\ out.commands[k].output # <<>>

\* the steps of command k, as the log and the collection windows show them:
\* the page is opened in a window of its own, then come the windows of the
\* toggle attempts if any, then the window in which the mapped keys of the
\* command, and nothing else, are sent, then the window in which the browser
\* goes to about:blank; settings and toggle frames lie between the first
\* and the keys window; the log of the command is contiguous
StepsInOrder(k) ==
  LET ws == WindowsOf(k)
      n == Len(ws)
      keys == sendKeysCommands(atKeysFromCommand(test.commands[k]).sequence)
  IN  /\ n >= 3
      /\ \A j \in 1..n : ws[j].returned
      /\ \A j \in 1..(n - 1) : ws[j].to <= ws[j + 1].from
      /\ ws[1].delay = "afterNav"
      /\ ws[1].to = ws[1].from + 1
      /\ rlog[ws[1].to] = [Navigate(test.target.referencePage) EXCEPT !.cmd = k]
      /\ \A j \in 2..(n - 2) : ws[j].delay = "modeSwitch"
      /\ ws[n - 1].delay = "afterKeys"
      /\ ws[n - 1].to = ws[n - 1].from + Len(keys)
      /\ \A m \in 1..Len(keys) :
           /\ IsPress(rlog[ws[n - 1].from + m])
           /\ rlog[ws[n - 1].from + m].params = keys[m].params
      /\ ws[n].delay = "afterNav"
      /\ ws[n].from = ws[n - 1].to
      /\ ws[n].to = ws[n].from + 1
      /\ rlog[ws[n].to] = [Navigate("about:blank") EXCEPT !.cmd = k]
      /\ \A m \in (ws[1].to + 1)..ws[n - 1].from : rlog[m].ev = "frame"
      /\ \A m \in DOMAIN rlog :
           rlog[m].cmd = k <=> (ws[1].from < m /\ m <= ws[n].to)

\* C21: for every valid command run performs its steps in this order: open
\* the reference page (in a collection window), ensure the settings or the
\* mode, send the mapped keys (in a collection window), go to about:blank
\* (in a collection window); every key press is sent while the browser is on
\* the reference page, and at the start of every command the browser is on
\* about:blank.
C21_StepsOfACommandInOrder ==
  out.runner = "driver" =>
    /\ \A k \in DOMAIN test.commands : Completed(k) => StepsInOrder(k)
    /\ \A n \in DOMAIN rlog :
         IsPress(rlog[n]) => PageAt(n) = test.target.referencePage
    /\ rpc = "loop" => PageAt(Len(rlog)) = "about:blank"

\* C21 witness: both commands of a test were valid and are done, the first
\* after two toggle attempts, with speech in every window of it.
C21_Witness ==
  /\ rpc = "done"
  /\ Completed(1)
  /\ Completed(2)
  /\ Len(WindowsOf(1)) = 5
  /\ \A j \in 1..5 : WindowsOf(1)[j].spoken # <<>>
  /\ Len(WindowsOf(2)) = 3

\* a call of _collectSpeech whose operation threw: the AT rejected a chord
ChordRejected == \E n \in DOMAIN windows : ~windows[n].returned

\* C22: when a lower-layer operation fails during command k (a chord or a
\* settings update rejected by the AT, a toggle that fails, a configuration
\* error), run rejects with that error, and no navigation, key press or
\* settings request is made for a command after k.
C22_FailureAbortsRemainingCommands ==
  out.runner = "driver" =>
    /\ tg.outcome = "threw" => (rpc = "failed" /\ thrown = tg.err)
    /\ ChordRejected =>
         /\ rpc \in {"restore", "failed"}
         /\ rpc = "failed" => thrown.kind = AtError.kind
    /\ thrown # NoError => rpc = "failed"
    /\ rpc = "failed" => thrown # NoError
    /\ (rpc = "failed" /\ capabilities.state = "resolved") =>
         /\ cmdIx \in DOMAIN test.commands
         /\ \A n \in DOMAIN rlog : rlog[n].cmd <= cmdIx
         /\ \A n \in DOMAIN windows : windows[n].cmd <= cmdIx
         /\ Len(out.commands) = cmdIx - 1
         /\ out.returned = <<>>

\* C22 witness: the AT rejected the chord of the first of two valid commands;
\* run was rejected and nothing was done for the second.
C22_Witness ==
  /\ rpc = "failed"
  /\ Len(test.commands) = 2
  /\ cmdIx = 1
  /\ \A k \in 1..2 : IsValidCommand(validateKeysFromCommand(test.commands[k]))
  /\ windows[Len(windows)].delay = "afterKeys"
  /\ ~windows[Len(windows)].returned
  /\ thrown = AtError

\* the result r of a run of test t has one CommandOutput per command, in
\* the order of the commands, each with the output or with the errors, and
\* for every command one AssertionResult per assertion, command by command
WellFormedResult(r, t) ==
  LET nAssertions == Len(t.assertions)
  IN  /\ Len(r.commands) = Len(t.commands)
      /\ Len(r.results) = Len(t.commands) * nAssertions
      /\ \A k \in DOMAIN t.commands :
           /\ r.commands[k].command = t.commands[k].id
           /\ (r.commands[k].output = <<>>) # (r.commands[k].errors = <<>>)
           /\ \A a \in 1..nAssertions :
                r.results[(k - 1) * nAssertions + a].command = t.commands[k].id

\* C23: every TestResult run returns has exactly one CommandOutput per
\* command of the test, in command order, and for each command exactly one
\* AssertionResult per assertion of the test, grouped in command order; each
\* CommandOutput carries either output or errors, never both.
C23_ResultShape ==
  out.returned # <<>> =>
    /\ WellFormedResult(out.returned[1], test)
    /\ Len(test.assertions) >= 1
    /\ out.returned[1].commands = out.commands
    /\ out.returned[1].results = out.results

\* C23 witness: the mock runner returned the result of a test whose first
\* command is invalid and whose second is valid.
C23_Witness ==
  /\ out.runner = "mock"
  /\ out.returned # <<>>
  /\ Len(out.returned[1].commands) = 2
  /\ out.returned[1].commands[1].errors # <<>>
  /\ out.returned[1].commands[2].output # <<>>
  /\ Len(out.returned[1].results) = 4

(***************************************************************************)
(* Properties of the runner over several runs                              *)
(***************************************************************************)
\* every result returned so far carries the snapshot the runner collected
SameSnapshot ==
  /\ \A n \in DOMAIN history : history[n] = capabilities.value
  /\ (out.returned # <<>> /\ out.runner = "driver") =>
       out.returned[1].capabilities = capabilities.value

\* C24 as stated: over any sequence of calls of run on one runner, the
\* capabilities of the browser driver and of the AT driver are each fetched
\* exactly once, and every result returned carries the same snapshot.
C24_CapabilitiesFetchedExactlyOnce ==
  nRuns >= 1 =>
    /\ capabilities.browserFetches = 1
    /\ capabilities.atFetches = 1
    /\ SameSnapshot

\* C24 amended: the capabilities of the browser driver are fetched exactly
\* once, those of the AT driver at most once, and exactly once unless the
\* fetch from the browser driver failed; no call of run fetches them again or
\* changes the snapshot; every result returned carries that snapshot, and
\* none is returned when a fetch failed.
C24_CapabilitiesNeverRefetched ==
  /\ [](/\ capabilities.browserFetches = 1
        /\ capabilities.atFetches <= 1
        /\ capabilities.state \in {"at", "resolved"} => capabilities.atFetches = 1
        /\ capabilities.err.kind = "browser capabilities" =>
             capabilities.atFetches = 0
        /\ nRuns >= 1 => capabilities.state \in {"resolved", "rejected"}
        /\ capabilities.state = "rejected" =>
             (history = <<>> /\ out.returned = <<>>)
        /\ SameSnapshot)
  /\ [][nRuns >= 1 => capabilities' = capabilities]_vars

\* C24 witness: run has returned twice on one runner whose AT is NVDA; both
\* results carry the snapshot.
C24_Witness ==
  /\ nRuns = 2
  /\ rpc = "done"
  /\ Len(history) = 2
  /\ capabilities.value.atName = NVDA
  /\ history[1] = history[2]

\* the window in which the keys of command k were sent
KeysWindow(k) ==
  LET ws == SelectSeq(WindowsOf(k), LAMBDA w : w.delay = "afterKeys")
  IN  ws[Len(ws)]

\* C25: for a command that passes validation and whose steps complete, the
\* output is exactly the speech collected in the window of its key presses,
\* joined with newlines (what the navigation windows and the toggle attempts
\* collected is not part of it), and every assertion of the test gets a
\* result with pass = true.
C25_OutputIsSpeechOfKeysWindow ==
  \A k \in DOMAIN test.commands :
    Completed(k) =>
      LET spoken == KeysWindow(k).spoken
          output == out.commands[k].output[1]
          nAssertions == Len(test.assertions)
      IN  /\ output = join(spoken, <<"\n">>)
          /\ IF spoken = <<>> THEN output = <<>>
                              ELSE split(output, {"\n"}) = spoken
          /\ out.commands[k].errors = <<>>
          /\ \A a \in 1..nAssertions :
               LET r == out.results[(k - 1) * nAssertions + a]
               IN  /\ r.command = test.commands[k].id
                   /\ r.pass = TRUE

\* C25 witness: a command is done after two toggle attempts; every window
\* collected speech, the window of the keys two lines.
C25_Witness ==
  /\ Completed(1)
  /\ Len(WindowsOf(1)) = 5
  /\ \A j \in 1..5 : WindowsOf(1)[j].spoken # <<>>
  /\ Len(KeysWindow(1).spoken) = 2
  /\ Len(split(out.commands[1].output[1], {"\n"})) = 2
  /\ rpc = "loop"


(***************************************************************************)
(* A command on its way: validated, mapped to keys, sent to the AT.        *)
(***************************************************************************)
\* the keypress ids of the commands given: named keys, characters and chords;
\* ids with '/', '(' and ')', with "or" and "followed" alone, after '+' and
\* '_' and between spaces; ids with a part that is no key; two keypresses
\* with an offending one first, last and both; an id with a comma; no
\* keypress at all
KeypressIds ==
  { <<<<"E","N","T","E","R">>>>,
    <<<<"a">>>>,
    <<<<"P","A","G","E","_","D","O","W","N">>>>,
    <<<<"D","O","W","N","_","A","R","R","O","W">>>>,
    <<<<"S","H","I","F","T","+","a">>>>,
    <<<<"E","N","T","E","R">>, <<"a">>>>,
    <<<<"/">>>>,
    <<<<"A","/","B">>>>,
    <<<<"(">>>>,
    <<<<"a","+",")">>>>,
    <<<<"o","r">>>>,
    <<<<"A","+","o","r">>>>,
    <<<<"A","_","o","r">>>>,
    <<<<"a"," ","o","r"," ","b">>>>,
    <<<<"f","o","l","l","o","w","e","d">>>>,
    <<<<"a"," ","f","o","l","l","o","w","e","d"," ","b","y"," ","b">>>>,
    <<<<"C","O","N","T","R","O","L","+","A","L","T","+","D","E","L","E","T","E">>>>,
    <<<<"U","P","_","A","R","R","O","W">>>>,
    <<<<"S","P","A","C","E">>>>,
    <<<<"T","A","B">>, <<"D","O","W","N","_","A","R","R","O","W">>>>,
    <<<<"a",",","b">>>>,
    <<<<"x","y">>>>,
    <<<<"A","/","B">>, <<"x","y">>>>,
    <<<<"E","N","T","E","R">>, <<"x","y">>>>,
    <<<<"x","y">>, <<"E","N","T","E","R">>>>,
    <<>> }

\* the command { id: 'k', keypresses: ids.map(id => ({ id })) }
Command_keys(ids) ==
  [id |-> "k", keypresses |-> [n \in DOMAIN ids |-> [id |-> ids[n]]],
   settings |-> UndefinedStr]

\* const { value: validCommand, errors } = validateKeysFromCommand(command)
Validate(c) ==
  /\ kpc = "idle"
  /\ given' = c
  /\ validation' = validateKeysFromCommand(c)
  /\ kpc' = "validated"
  /\ UNCHANGED <<keySequence, requests, flattening>>
  /\ UNCHANGED <<socketVars, nextId, runVars, hostVars>>

\* if (validCommand): atKeysFromCommand(validCommand)
MapKeys ==
  /\ kpc = "validated"
  /\ IsValidCommand(validation)
  /\ keySequence' = atKeysFromCommand(validation.value[1])
  /\ kpc' = "mapped"
  /\ UNCHANGED <<given, validation, requests, flattening>>
  /\ UNCHANGED <<socketVars, nextId, runVars, hostVars>>

\* await this.sendKeys(...): the AT answers every request, or answers the
\* first one with an error
SendMapped(resp) ==
  /\ kpc = "mapped"
  /\ requests' = SentBy(sendKeysCommands(keySequence.sequence), resp)
  /\ nextId' = nextId + Len(requests')
  /\ kpc' = "sent"
  /\ UNCHANGED <<given, validation, keySequence, flattening>>
  /\ UNCHANGED <<socketVars, runVars, hostVars>>

\* what ATKey.sequence is called with: keys and chords
SequenceItems ==
  {Key_enter, Key_a, ATKey_chord(<<Key_a>>), ATKey_chord(<<Key_insert, Key_space>>)}

\* ATKey.sequence(ATKey.sequence(a, b), c) and ATKey.sequence(a, b, c)
Sequence(a, b, c) ==
  /\ kpc = "idle"
  /\ flattening' = [items |-> <<a, b, c>>,
                    nested |-> ATKey_sequence(<<ATKey_sequence(<<a, b>>), c>>),
                    flat |-> ATKey_sequence(<<a, b, c>>)]
  /\ kpc' = "sequenced"
  /\ UNCHANGED <<given, validation, keySequence, requests>>
  /\ UNCHANGED <<socketVars, nextId, runVars, hostVars>>

KeysNext ==
  \/ \E ids \in KeypressIds : Validate(Command_keys(ids))
  \/ MapKeys
  \/ \E resp \in {"ok", "error"} : SendMapped(resp)
  \/ \E a, b, c \in SequenceItems : Sequence(a, b, c)

KeysSpec == RunnerInit /\ [][KeysNext]_vars

(***************************************************************************)
(* C26: a command with a keypress id that contains '/', '(' or ')', the    *)
(* word "or" or the word "followed" gets errors from                       *)
(* validateKeysFromCommand and never a validated command, so it is never   *)
(* mapped to keys.                                                         *)
(***************************************************************************)
Letters ==
  {LowerChars[n] : n \in DOMAIN LowerChars}
    \cup {UpperChars[n] : n \in DOMAIN UpperChars}

\* word stands in s with no letter before it and none after it
HasWord(s, word) ==
  \E n \in DOMAIN s :
    /\ MatchAt(s, word, n)
    /\ (n = 1 \/ s[n - 1] \notin Letters)
    /\ (n + Len(word) > Len(s) \/ s[n + Len(word)] \notin Letters)

Offends(id) ==
  \/ \E n \in DOMAIN id : id[n] \in {"/", "(", ")"}
  \/ HasWord(id, <<"o","r">>)
  \/ HasWord(id, <<"f","o","l","l","o","w","e","d">>)

Validated == kpc \in {"validated", "mapped", "sent"}

\* C26: whenever the command validated has an offending keypress id, the
\* outcome has errors and no value, and the command goes no further
C26_OffendingIdsRejected ==
  (Validated /\ \E n \in DOMAIN given.keypresses : Offends(given.keypresses[n].id))
    => /\ validation.value = <<>>
       /\ Len(validation.errors) = 1
       /\ validation.errors[1] # <<>>
       /\ kpc = "validated"

\* the command { id, keypresses: [{ id: 'A/B' }] } was validated: an error
\* about the '/'
C26_Witness ==
  /\ kpc = "validated"
  /\ given.keypresses = <<[id |-> <<"A","/","B">>]>>
  /\ validation.value = <<>>
  /\ \E n \in DOMAIN validation.errors[1] :
       validation.errors[1][n].kind = "cannot contain '/'"

(***************************************************************************)
(* C27: validateKeysFromCommand returns either the command, unchanged, or  *)
(* a non-empty list of errors, never both; the list holds the errors of    *)
(* every offending keypress, and the command is returned only when no      *)
(* keypress has an error.                                                  *)
(***************************************************************************)
\* the errors of the n-th keypress of the command given, validated alone
ErrorsAlone(n) ==
  LET alone == validateKeysFromCommand(Command_keys(<<given.keypresses[n].id>>))
  IN  IF alone.errors = <<>> THEN <<>> ELSE alone.errors[1]

\* C27: one of value and errors; errors of every offending keypress are in
\* the list; a value is the command given and no keypress has errors
C27_ValueOrAllErrors ==
  Validated =>
    /\ Len(validation.value) + Len(validation.errors) = 1
    /\ validation.errors # <<>> =>
         /\ validation.errors[1] # <<>>
         /\ \A n \in DOMAIN given.keypresses :
              \A k \in DOMAIN ErrorsAlone(n) :
                \E j \in DOMAIN validation.errors[1] :
                  validation.errors[1][j] = ErrorsAlone(n)[k]
    /\ validation.value # <<>> =>
         /\ validation.value[1] = given
         /\ \A n \in DOMAIN given.keypresses : ErrorsAlone(n) = <<>>

\* the keypresses 'A/B' and 'xy': the error of the '/' and the error of the
\* part 'xy' are both in the list
C27_Witness ==
  /\ kpc = "validated"
  /\ Len(given.keypresses) = 2
  /\ ErrorsAlone(1) # <<>>
  /\ ErrorsAlone(2) # <<>>
  /\ validation.value = <<>>
  /\ \E j \in DOMAIN validation.errors[1] :
       validation.errors[1][j].kind = "cannot contain '/'"
  /\ \E j \in DOMAIN validation.errors[1] :
       /\ validation.errors[1][j].kind = "not a recognized key"
       /\ validation.errors[1][j].part = <<"x","y">>

(***************************************************************************)
(* C28: a command whose only keypress id is one named key, such as ENTER,  *)
(* validates, maps to a sequence of one chord of one key ("enter"), and    *)
(* sending it issues one interaction.pressKeys request whose keys are the  *)
(* one code point of that key (U+E007 for ENTER).                          *)
(***************************************************************************)
\* id is the name of a key of the table as it stands (ENTER, SPACE, TAB)
SingleNamedKey(id) ==
  /\ toUpperCase(id) \in DOMAIN seleniumKeysMap
  /\ \A n \in DOMAIN id : id[n] # "_"

OnlyNamedKey ==
  /\ Len(given.keypresses) = 1
  /\ SingleNamedKey(given.keypresses[1].id)

C29_SequenceSentIsNotEmpty ==
  kpc \in {"mapped", "sent"} =>
    /\ keySequence.sequence # <<>>
    /\ \A c \in DOMAIN keySequence.sequence :
         keySequence.sequence[c].keys # <<>>

(***************************************************************************)
(* C30: ATKey.sequence flattens nested sequences: sequence(sequence(a, b), *)
(* c) has the chords of sequence(a, b, c) in the same order; a bare key    *)
(* becomes a chord of that one key and the order of the items is kept.     *)
(***************************************************************************)
\* the chord an item of a sequence stands for
ChordOf(item) == IF item.type = "key" THEN ATKey_chord(<<item>>) ELSE item

\* C30: the nested and the flat call give the same chords, one per item, in
\* the order of the items
C30_SequenceFlattens ==
  kpc = "sequenced" =>
    /\ flattening.nested.type = "sequence"
    /\ flattening.nested.sequence = flattening.flat.sequence
    /\ Len(flattening.flat.sequence) = 3
    /\ \A n \in 1..3 :
         /\ flattening.nested.sequence[n].type = "chord"
         /\ flattening.nested.sequence[n] = ChordOf(flattening.items[n])

\* sequence(sequence(Enter, Insert+Space), a): three chords, the first and
\* the last of one key
C30_Witness ==
  /\ kpc = "sequenced"
  /\ flattening.items = <<Key_enter, ATKey_chord(<<Key_insert, Key_space>>), Key_a>>
  /\ flattening.nested.sequence =
       <<ATKey_chord(<<Key_enter>>), ATKey_chord(<<Key_insert, Key_space>>),
         ATKey_chord(<<Key_a>>)>>

(***************************************************************************)
(* C31: in run, the settings of a command, when it has any, are what is    *)
(* applied (ensureSettings) and the legacy mode of the test is ignored;    *)
(* the mode is applied (ensureMode) only when the command has no settings  *)
(* and the target has a mode; when there is neither, no settings step is   *)
(* done and no toggle chord is sent.                                       *)
(***************************************************************************)
\* the settings step of the command at cmdIx is behind, or has failed
PastSettingsStep ==
  \/ rpc \in {"toggle", "restore", "keys", "blank"}
  \/ rpc = "failed" /\ capabilities.state = "resolved" /\ tg.outcome = "threw"

\* what the log holds of the command at cmdIx
LogOfCommand == SelectSeq(rlog, LAMBDA ev : ev.cmd = cmdIx)

\* C31: settings are applied under their own name whatever the mode is; the
\* mode only without settings; with neither, nothing but the navigation is
\* in the log when the keys of the command are about to be sent
C31_SettingsBeforeLegacyMode ==
  PastSettingsStep =>
    LET command == test.commands[cmdIx]
    IN  /\ ~Falsy(command.settings) =>
             /\ tg.entry = "ensureSettings"
             /\ tg.called
             /\ tg.settings = command.settings
             /\ (/\ atName = NVDA
                 /\ tg.toggle # "none"
                 /\ toLowerCase(command.settings) \in DOMAIN NvdaResponses) =>
                  tg.desired = NvdaResponses[toLowerCase(command.settings)]
        /\ (Falsy(command.settings) /\ ~Falsy(test.target.mode)) =>
             tg.entry = "ensureMode"
        /\ (Falsy(command.settings) /\ Falsy(test.target.mode)) =>
             /\ tg = NoToggle
             /\ rpc = "keys" =>
                  /\ Len(LogOfCommand) = 1
                  /\ LogOfCommand[1].ev = "navigate"

\* NVDA, a command with the settings focusMode in a test of mode reading:
\* the toggle waits for "Focus mode"
C31_Witness ==
  /\ rpc = "keys"
  /\ atName = NVDA
  /\ test.commands[cmdIx].settings = <<"f","o","c","u","s","M","o","d","e">>
  /\ test.target.mode = <<"r","e","a","d","i","n","g">>
  /\ tg.entry = "ensureSettings"
  /\ tg.desired = Str_FocusMode
  /\ tg.outcome = "ok"

(***************************************************************************)
(* C32: for NVDA ensureMode("reading") is ensureSettings("browseMode") and *)
(* ensureMode("interaction") is ensureSettings("focusMode"); for VoiceOver *)
(* and for an atName that is absent or empty ensureMode returns with no    *)
(* key press and no settings request sent.                                 *)
(***************************************************************************)
\* run has called ensureMode for the command at cmdIx
EnsureModeEntered == PastSettingsStep /\ tg.entry = "ensureMode"

\* the settings name and the response of a legacy mode
SettingsOfMode(mode) ==
  IF mode = <<"r","e","a","d","i","n","g">>
    THEN [name |-> <<"b","r","o","w","s","e","M","o","d","e">>, response |-> Str_BrowseMode]
    ELSE [name |-> <<"f","o","c","u","s","M","o","d","e">>, response |-> Str_FocusMode]

\* C32: under NVDA ensureSettings is called with the name of the mode: the
\* audio indication is disabled first, Insert+Space is what is pressed, the
\* response of that name is what is waited for; under VoiceOver and without
\* atName ensureSettings is not called, ensureMode has returned and the log
\* has not grown
C32_EnsureModeTranslatesForNvda ==
  EnsureModeEntered =>
    /\ atName = NVDA =>
         /\ tg.called
         /\ tg.settings = SettingsOfMode(test.target.mode).name
         /\ tg.branch = "toggle"
         /\ Len(rlog) > tg.from
         /\ IsUpdate(rlog[tg.from + 1], FALSE)
         /\ tg.toggle # "none" =>
              /\ tg.desired = SettingsOfMode(test.target.mode).response
              /\ tg.sequence = Seq_InsertSpace.sequence
              /\ tg.restores
         /\ \A n \in (tg.from + 1)..Len(rlog) :
              IsPress(rlog[n]) /\ rlog[n].cmd = cmdIx /\ rpc # "blank" =>
                rlog[n].params = PressKeys(Seq_InsertSpace.sequence[1]).params
    /\ atName \in {VoiceOver, UndefinedStr, <<>>} =>
         /\ ~tg.called
         /\ tg.outcome = "ok"
         /\ tg.to = tg.from
         /\ rpc = "keys" => Len(rlog) = tg.from /\ rlog[Len(rlog)].ev = "navigate"

\* NVDA, a test of mode interaction and a command without settings: the
\* toggle has heard "Focus mode" and ensureMode has returned
C32_Witness ==
  /\ rpc = "keys"
  /\ atName = NVDA
  /\ tg.entry = "ensureMode"
  /\ test.target.mode = <<"i","n","t","e","r","a","c","t","i","o","n">>
  /\ tg.settings = <<"f","o","c","u","s","M","o","d","e">>
  /\ tg.desired = Str_FocusMode
  /\ tg.outcome = "ok"

(***************************************************************************)
(* C33: a command whose keypress ids have none of the forbidden patterns   *)
(* is validated if and only if every part of every id, the parts being     *)
(* what '_' and '+' delimit, is one character or a named key of the table, *)
(* whatever its case; every other part gets an error that names the part   *)
(* and its id.                                                             *)
(***************************************************************************)
\* the parts '_' and '+' delimit, PAGE_DOWN and PAGE_UP being one part and
\* the suffix _ARROW none
DelimitedParts(id) == split(normalizeId(id), {"_", "+"})

IsKeyPart(part) ==
  Len(part) = 1 \/ toUpperCase(part) \in DOMAIN webDriverCodePoints

\* C33: without forbidden patterns, the command is validated exactly when
\* every part is a key, and every part that is none has its error
C33_ValidatedIffEveryPartIsAKey ==
  (Validated /\ \A n \in DOMAIN given.keypresses : ~Offends(given.keypresses[n].id))
    => /\ validation.value # <<>>
            <=> \A n \in DOMAIN given.keypresses :
                  \A k \in DOMAIN DelimitedParts(given.keypresses[n].id) :
                    IsKeyPart(DelimitedParts(given.keypresses[n].id)[k])
       /\ \A n \in DOMAIN given.keypresses :
            \A k \in DOMAIN DelimitedParts(given.keypresses[n].id) :
              LET part == DelimitedParts(given.keypresses[n].id)[k]
              IN  ~IsKeyPart(part) =>
                    /\ validation.errors # <<>>
                    /\ \E j \in DOMAIN validation.errors[1] :
                         /\ validation.errors[1][j].kind = "not a recognized key"
                         /\ validation.errors[1][j].part = part

(***************************************************************************)
(* C34: atKeysFromCommand yields one chord per keypress of the command, in *)
(* the order of the keypresses; the chord of a keypress depends on the id  *)
(* of that keypress only, '+' and '_' both separating the keys of the      *)
(* chord and PAGE_DOWN and PAGE_UP being one key; a command always maps to *)
(* the same sequence.                                                      *)
(***************************************************************************)
\* the separators of an id: every '+' and '_' but the '_' of PAGE_DOWN and
\* of PAGE_UP
Separators(id) ==
  {n \in DOMAIN id :
     /\ id[n] \in {"+", "_"}
     /\ ~(MatchAt(id, <<"P","A","G","E","_","D","O","W","N">>, n - 4)
            \/ MatchAt(id, <<"P","A","G","E","_","U","P">>, n - 4))}

\* the chord the id maps to when it is the only keypress of a command
ChordAlone(id) == atKeysFromCommand(Command_keys(<<id>>)).sequence[1]

\* C34: as many chords as keypresses; the n-th chord is the chord of the
\* n-th id alone and has one key more than the id has separators
C34_OneChordPerKeypress ==
  kpc \in {"mapped", "sent"} =>
    /\ keySequence.type = "sequence"
    /\ Len(keySequence.sequence) = Len(given.keypresses)
    /\ \A n \in DOMAIN given.keypresses :
         LET id == given.keypresses[n].id
         IN  /\ keySequence.sequence[n].type = "chord"
             /\ keySequence.sequence[n] = ChordAlone(id)
             /\ Len(keySequence.sequence[n].keys) = Cardinality(Separators(id)) + 1
    /\ keySequence = atKeysFromCommand(given)

\* the keypresses ENTER and a: the chord of Enter, then the chord of a
C34_Witness ==
  /\ kpc = "mapped"
  /\ Len(given.keypresses) = 2
  /\ given.keypresses[1].id = <<"E","N","T","E","R">>
  /\ given.keypresses[2].id = <<"a">>
  /\ keySequence.sequence = <<ATKey_chord(<<Key_enter>>), ATKey_chord(<<Key_a>>)>>

(***************************************************************************)
(* C35: whenever _collectSpeech ends, by returning or because the          *)
(* operation it was given threw (a rejected chord), its listen job has     *)
(* been canceled: no listener of a finished _collectSpeech still takes     *)
(* speech events or logs them.                                             *)
(***************************************************************************)
\* C35: the job of a call of _collectSpeech that has ended is not running
C35_NoListenerOutlivesItsCollection ==
  \A j \in DOMAIN jobs :
    jobs[j].state = "running" =>
      /\ j = call.job
      /\ call.kind \in {"collectKeys", "collectNav"}
      /\ call.outcome \notin {"ok", "threw"}

(***************************************************************************)
(* C36: the validator and the mapper agree: for every command               *)
(* validateKeysFromCommand accepts, every key atKeysFromCommand produces   *)
(* is not empty and is one character or a named key of the table, and the  *)
(* keys sent are the parts the validator checked (ids with ',', with the   *)
(* suffix _ARROW and with several '+' included).                           *)
(***************************************************************************)
\* the parts of the id the validator checked, in lower case
CheckedParts(id) ==
  LET parts == split(normalizeId(id), {"_", "+", ","})
  IN  {toLowerCase(parts[k]) : k \in DOMAIN parts}

\* the names of the keys of a chord
KeyNames(chord) == {chord.keys[k].key : k \in DOMAIN chord.keys}

\* C36: every key of the sequence mapped from an accepted command has a
\* name, of one character or of the table, and the keys of the n-th chord
\* are the parts checked of the n-th id
C36_MapperSendsWhatValidatorChecked ==
  kpc \in {"mapped", "sent"} =>
    \A n \in DOMAIN keySequence.sequence :
      /\ \A name \in KeyNames(keySequence.sequence[n]) :
           /\ name # <<>>
           /\ \/ Len(name) = 1
              \/ toUpperCase(name) \in DOMAIN webDriverCodePoints
      /\ KeyNames(keySequence.sequence[n]) = CheckedParts(given.keypresses[n].id)

(***************************************************************************)
(* C37: also when what the AT says of a toggle arrives late, after the     *)
(* window of the attempt has closed and inside the window of the next      *)
(* attempt, a two-state AT is in the desired mode whenever                 *)
(* pressKeysToToggleSetting returns successfully.                          *)
(***************************************************************************)
\* C37: with an AT that speaks the name of the new mode for every toggle it
\* receives, in the window of the attempt or in a later one, a toggle that
\* has returned has left the AT in the desired mode
C37_SuccessfulToggleMeansDesiredMode ==
  (tg.toggle = "ok" /\ IsString(tg.desired) /\ tg.faithful) => tg.atOn

(***************************************************************************)
(* hostMain: the plans, a runner per plan, the tests of the plan.          *)
(***************************************************************************)
\* plans given to hostMain
MaxPlans == 2

\* tests of one plan
MaxTests == 2

\* the plans of a call: each plan is the number of its tests
PlanLists == UNION {[1..n -> 0..MaxTests] : n \in 0..MaxPlans}

\* how a promise settles
Settled == {"resolved", "rejected"}

\* log(type, ...) while the plan at planIx is worked on
HostLogged(log, type) == Append(log, [type |-> type, plan |-> planIx])

\* postCallbackWhenEnabled(body): nothing without a callback url; else the
\* request is chained to the last one, and the chain rejects when a request
\* of it does. fetched is how this request settles
Post(last, fetched) ==
  IF ~callbackUrl THEN last
  ELSE IF last = "rejected" THEN "rejected"
  ELSE fetched

\* hostMain(options), up to the top of the loop over the plans: START,
\* await server.ready, SERVER_LISTENING
HostMain(ps, url) ==
  /\ hpc = "none"
  /\ plans' = ps
  /\ callbackUrl' = url
  /\ hostLog' = HostLogged(HostLogged(hostLog, "START"), "SERVER_LISTENING")
  /\ hpc' = "plans"
  /\ UNCHANGED <<planIx, testIx, runners, lastCallbackRequest>>
  /\ UNCHANGED <<socketVars, nextId, runVars, keysVars>>

\* for await (let plan of plans): the next plan up to await createRunner, or
\* after the last plan STOP_SERVER, await server.close(), WILL_STOP
NextPlan ==
  /\ hpc = "plans"
  /\ IF planIx < Len(plans)
       THEN /\ planIx' = planIx + 1
            /\ hostLog' = Append(hostLog, [type |-> "ADD_SERVER_DIRECTORY",
                                           plan |-> planIx + 1])
            /\ hpc' = "createRunner"
       ELSE /\ hostLog' = HostLogged(HostLogged(hostLog, "STOP_SERVER"), "WILL_STOP")
            /\ hpc' = "returned"
            /\ UNCHANGED planIx
  /\ UNCHANGED <<plans, callbackUrl, testIx, runners, lastCallbackRequest>>
  /\ UNCHANGED <<socketVars, nextId, runVars, keysVars>>

\* const runner = await createRunner({ abortSignal: new Promise(resolve =>
\* emitter.on(STOP_RUNNER, () => resolve())), ... }); createATDriver has
\* abortSignal.then(() => driver.quit()). let lastCallbackRequest =
\* Promise.resolve()
CreateRunner(how) ==
  /\ hpc = "createRunner"
  /\ IF how = "resolved"
       THEN /\ runners' = Append(runners, [plan |-> planIx, quit |-> FALSE])
            /\ lastCallbackRequest' = "resolved"
            /\ testIx' = 0
            /\ hpc' = "tests"
       ELSE /\ hpc' = "rejected"
            /\ UNCHANGED <<runners, lastCallbackRequest, testIx>>
  /\ UNCHANGED <<plans, callbackUrl, planIx, hostLog>>
  /\ UNCHANGED <<socketVars, nextId, runVars, keysVars>>

\* for (const test of plan.tests): START_TEST, the RUNNING callback, up to
\* await runner.run(...); or after the last test REMOVE_SERVER_DIRECTORY, up
\* to await lastCallbackRequest
StartTest(fetched) ==
  /\ hpc = "tests"
  /\ IF testIx < plans[planIx]
       THEN /\ testIx' = testIx + 1
            /\ hostLog' = HostLogged(hostLog, "START_TEST")
            /\ lastCallbackRequest' = Post(lastCallbackRequest, fetched)
            /\ hpc' = "run"
       ELSE /\ hostLog' = HostLogged(hostLog, "REMOVE_SERVER_DIRECTORY")
            /\ hpc' = "stop"
            /\ UNCHANGED <<testIx, lastCallbackRequest>>
  /\ UNCHANGED <<plans, callbackUrl, planIx, runners>>
  /\ UNCHANGED <<socketVars, nextId, runVars, keysVars>>

\* runner.run(...) has settled: try { ... COMPLETED callback } catch
\* (exception) { TEST_ERROR, ERROR callback, up to await lastCallbackRequest }
RunSettles(how, fetched) ==
  /\ hpc = "run"
  /\ lastCallbackRequest' = Post(lastCallbackRequest, fetched)
  /\ IF how = "resolved"
       THEN /\ hpc' = "tests"
            /\ UNCHANGED hostLog
       ELSE /\ hostLog' = HostLogged(hostLog, "TEST_ERROR")
            /\ hpc' = "catch"
  /\ UNCHANGED <<plans, callbackUrl, planIx, testIx, runners>>
  /\ UNCHANGED <<socketVars, nextId, runVars, keysVars>>

\* catch: await lastCallbackRequest; throw exception: hostMain is rejected
\* with the exception, or with what the chain of requests was rejected with
Rethrow ==
  /\ hpc = "catch"
  /\ hpc' = "rejected"
  /\ UNCHANGED <<plans, callbackUrl, planIx, testIx, runners,
                 lastCallbackRequest, hostLog>>
  /\ UNCHANGED <<socketVars, nextId, runVars, keysVars>>

\* await lastCallbackRequest; emitter.emit(STOP_RUNNER): the abort signal
\* resolves and the AT driver quits; await emitPlanResults(plan)
StopRunner ==
  /\ hpc = "stop"
  /\ IF lastCallbackRequest = "resolved"
       THEN /\ runners' = [runners EXCEPT ![planIx].quit = TRUE]
            /\ hpc' = "plans"
       ELSE /\ hpc' = "rejected"
            /\ UNCHANGED runners
  /\ UNCHANGED <<plans, callbackUrl, planIx, testIx, lastCallbackRequest,
                 hostLog>>
  /\ UNCHANGED <<socketVars, nextId, runVars, keysVars>>

HostNext ==
  \/ \E ps \in PlanLists, url \in BOOLEAN : HostMain(ps, url)
  \/ NextPlan
  \/ \E how \in Settled : CreateRunner(how)
  \/ \E fetched \in Settled : StartTest(fetched)
  \/ \E how \in Settled, fetched \in Settled : RunSettles(how, fetched)
  \/ Rethrow
  \/ StopRunner

\* every promise hostMain awaits settles
HostSpec == Init /\ [][HostNext]_vars /\ WF_vars(HostNext)

(***************************************************************************)
(* C38: for every plan hostMain has made a runner for, STOP_RUNNER is      *)
(* eventually emitted (the abort signal of the runner resolves and the AT  *)
(* driver quits and closes its socket), also when the run of a test        *)
(* throws.                                                                 *)
(***************************************************************************)
\* C38: a runner made is, sooner or later, a runner told to stop
C38_StopRunnerEventuallyEmitted ==
  \A p \in 1..MaxPlans :
    (Len(runners) >= p) ~> (Len(runners) >= p /\ runners[p].quit)
=============================================================================
